---- MODULE Spec2Model ----
(***************************************************************************)
(* PromptLab: the request handlers of backend/app/api.py over the          *)
(* in-memory store (app.storage), with the entity shapes of                *)
(* backend/app/models.py.                                                  *)
(*                                                                         *)
(* Encoding.  Optional[T] is a sequence of length at most one: None is     *)
(* <<>> and a value v is <<v>>.  Titles, contents, descriptions and        *)
(* collection ids are opaque strings.  A tag is a sequence of characters,  *)
(* so that str.lower() and str.strip() are computed character by           *)
(* character.  Prompt ids are the naturals 1, 2, ... in the order          *)
(* generate_id() hands them out; collection ids are "c1", "c2", ...        *)
(***************************************************************************)
EXTENDS Naturals, Sequences, FiniteSets, TLC

VARIABLES
    prompts,          \* storage._prompts: prompt id -> Prompt
    collections,      \* storage._collections: collection id -> Collection
    now,              \* the clock read by get_current_time()
    nextPid,          \* number of prompt ids generated so far
    nextCid,          \* number of collection ids generated so far
    req,              \* the last request served (sequential server)
    resp,             \* its response
    prevPrompts,      \* storage._prompts when that request arrived
    prevCollections,  \* storage._collections when that request arrived
    prevNow,          \* the clock when that request arrived
    threads           \* in-flight requests of the concurrent server

vars == <<prompts, collections, now, nextPid, nextCid, req, resp,
          prevPrompts, prevCollections, prevNow, threads>>

store == <<prompts, collections, nextPid, nextCid>>
history == <<req, resp, prevPrompts, prevCollections, prevNow>>

(***************************************************************************)
(* Bounds of the model.                                                    *)
(***************************************************************************)
MaxPrompts == 1
MaxCollections == 1
MaxTime == 1
NumThreads == 2
MaxQueryPrompts == 2
MaxLifeCollections == 2
MaxPad == 1
MaxWord == 11
MaxTokens == 2

(***************************************************************************)
(* Field constraints declared in models.py.                                *)
(***************************************************************************)
TitleMaxLen == 200
DescriptionMaxLen == 500
NameMaxLen == 100
TagMaxLen == 50

(***************************************************************************)
(* Optional values.                                                        *)
(***************************************************************************)
None == <<>>
Some(v) == <<v>>
IsNone(o) == o = <<>>
Get(o) == o[1]

\* Python truthiness of an Optional[str]: None and "" are falsy.
TruthyStr(o) == ~IsNone(o) /\ Get(o) # ""

Range(s) == {s[i] : i \in 1..Len(s)}

(***************************************************************************)
(* Tag strings: str.lower() and str.strip().                               *)
(***************************************************************************)
\* The alphabet of characters is {"a", "A", "b", "B", " ", "x"}.
LowerChar(ch) == IF ch = "A" THEN "a" ELSE IF ch = "B" THEN "b" ELSE ch

Lower(s) == [i \in 1..Len(s) |-> LowerChar(s[i])]

IsSpace(ch) == ch \in {" ", "\t", "\n"}

RECURSIVE LStrip(_)
LStrip(s) == IF s # <<>> /\ IsSpace(Head(s)) THEN LStrip(Tail(s)) ELSE s

RECURSIVE RStrip(_)
RStrip(s) ==
    IF s # <<>> /\ IsSpace(s[Len(s)]) THEN RStrip(SubSeq(s, 1, Len(s) - 1)) ELSE s

Strip(s) == RStrip(LStrip(s))

LowerAll(tags) == [i \in 1..Len(tags) |-> Lower(tags[i])]

\* list.remove(x): drops the first occurrence of x.
RECURSIVE ListRemove(_, _)
ListRemove(l, x) ==
    IF l = <<>> THEN <<>>
    ELSE IF Head(l) = x THEN Tail(l)
    ELSE <<Head(l)>> \o ListRemove(Tail(l), x)

(***************************************************************************)
(* app.utils: the content utilities.  A text is a sequence of characters.  *)
(***************************************************************************)
MinContentLen == 10

\* validate_prompt_content: len(content.strip()) >= 10.
ValidatePromptContent(text) == Len(Strip(text)) >= MinContentLen

\* \w: a letter, a digit or the underscore.
IsWordChar(ch) == ch \in {"a", "A", "b", "B", "x", "1", "_"}

\* The index of the last character of the run of word characters that
\* starts at k; k - 1 when there is none.
RECURSIVE WordRunEnd(_, _)
WordRunEnd(text, k) ==
    IF k <= Len(text) /\ IsWordChar(text[k]) THEN WordRunEnd(text, k + 1) ELSE k - 1

\* The pattern \{\{(\w+)\}\} tried at index i: the index of the last character
\* of the identifier, 0 when the pattern does not match there.
MatchEnd(text, i) ==
    LET n == WordRunEnd(text, i + 2)
    IN  IF /\ i + 1 <= Len(text) /\ text[i] = "{" /\ text[i + 1] = "{"
           /\ n >= i + 2
           /\ n + 2 <= Len(text) /\ text[n + 1] = "}" /\ text[n + 2] = "}"
        THEN n ELSE 0

\* A scan that lets the identifier run over hyphens too.
RECURSIVE FindAllLoose(_, _)
FindAllLoose(text, i) ==
    LET isLoose(ch) == IsWordChar(ch) \/ ch = "-"
        ends == {n \in (i + 2)..(Len(text) - 2) :
                    /\ \A k \in (i + 2)..n : isLoose(text[k])
                    /\ text[n + 1] = "}" /\ text[n + 2] = "}"}
        n == CHOOSE m \in ends : TRUE
    IN  IF i > Len(text) THEN <<>>
        ELSE IF i + 1 <= Len(text) /\ text[i] = "{" /\ text[i + 1] = "{" /\ ends # {}
        THEN <<SubSeq(text, i + 2, n)>> \o FindAllLoose(text, n + 3)
        ELSE FindAllLoose(text, i + 1)

\* re.findall from index i on: the matches from left to right, the scan
\* resuming after each match.
RECURSIVE FindAll(_, _)
FindAll(text, i) ==
    IF i > Len(text) THEN <<>>
    ELSE IF MatchEnd(text, i) = 0 THEN FindAll(text, i + 1)
    ELSE <<SubSeq(text, i + 2, MatchEnd(text, i))>> \o FindAll(text, MatchEnd(text, i) + 3)

\* extract_variables: re.findall(r'\{\{(\w+)\}\}', content).
ExtractVariables(text) == FindAll(text, 1)

(***************************************************************************)
(* models.py: identity, entities and their validation.                     *)
(***************************************************************************)
CollId(n) == "c" \o ToString(n)

\* PromptBase: title and content are plain strings, description is Optional.
ValidPromptBase(title, content, description) ==
    /\ Len(title) >= 1 /\ Len(title) <= TitleMaxLen
    /\ Len(content) >= 1
    /\ (IsNone(description) \/ Len(Get(description)) <= DescriptionMaxLen)

\* PromptCreate: title and content are required, tags defaults to [].
ValidPromptCreate(payload) ==
    /\ ~IsNone(payload.title) /\ ~IsNone(payload.content)
    /\ ValidPromptBase(Get(payload.title), Get(payload.content), payload.description)

ValidCollectionBase(name, description) ==
    /\ Len(name) >= 1 /\ Len(name) <= NameMaxLen
    /\ (IsNone(description) \/ Len(Get(description)) <= DescriptionMaxLen)

ValidTagAdd(tag) == Len(tag) >= 1 /\ Len(tag) <= TagMaxLen

Prompt(id, title, content, description, collection_id, tags, created_at, updated_at) ==
    [id |-> id, title |-> title, content |-> content, description |-> description,
     collection_id |-> collection_id, tags |-> tags,
     created_at |-> created_at, updated_at |-> updated_at]

Collection(id, name, description, created_at) ==
    [id |-> id, name |-> name, description |-> description, created_at |-> created_at]

(***************************************************************************)
(* app.storage: the store operations used by the handlers.                 *)
(***************************************************************************)
StorageGet(db, id) == IF id \in DOMAIN db THEN Some(db[id]) ELSE None

\* A create that keeps the entity already stored under the id (setdefault).
StorageCreateIfAbsent(db, e) ==
    [x \in DOMAIN db \cup {e.id} |-> IF x \in DOMAIN db THEN db[x] ELSE e]

StorageCreate(db, e) == [x \in DOMAIN db \cup {e.id} |-> IF x = e.id THEN e ELSE db[x]]

\* What create returns: the entity it was given.
StorageCreateResult(db, e) == e

\* An update that writes whether or not the id is stored (prompts[id] = p).
StorageUpdateUpsert(db, id, p) == [x \in DOMAIN db \cup {id} |-> IF x = id THEN p ELSE db[x]]

\* update_prompt: a plain replace; nothing happens for an id that is absent.
StorageUpdatePrompt(db, id, p) == IF id \in DOMAIN db THEN [db EXCEPT ![id] = p] ELSE db

\* What update_prompt returns: the new prompt, or absent for an unknown id.
StorageUpdateResult(db, id, p) == IF id \in DOMAIN db THEN Some(p) ELSE None

StorageDelete(db, id) == [x \in DOMAIN db \ {id} |-> db[x]]

\* A cascade that forgets to clear the reference.
OrphanKeepsReference(p, cid) == p

Orphan(p, cid) ==
    IF p.collection_id = Some(cid) THEN [p EXCEPT !.collection_id = None] ELSE p

\* delete_collection's cascade over the prompts.
StorageOrphanPrompts(db, cid) == [x \in DOMAIN db |-> Orphan(db[x], cid)]

(***************************************************************************)
(* Requests and responses.                                                 *)
(***************************************************************************)
\* A PromptCreate / PromptUpdate body; every field is Optional here, a
\* field left out of the JSON body is None.
Payload(title, content, description, collection_id, tags) ==
    [title |-> title, content |-> content, description |-> description,
     collection_id |-> collection_id, tags |-> tags]

NoPayload == Payload(None, None, None, None, None)

Request(op, pid, cid, payload, tag) ==
    [op |-> op, pid |-> pid, cid |-> cid, payload |-> payload, tag |-> tag]

Response(status, body) == [status |-> status, body |-> body]

NoRequest == Request("none", 0, "", NoPayload, <<>>)

(***************************************************************************)
(* api.py: the computations of the handlers.                               *)
(***************************************************************************)
\* "Validate collection exists if provided": TRUE when the handler raises 400.
CollectionMissing(payload, cs) ==
    TruthyStr(payload.collection_id) /\ IsNone(StorageGet(cs, Get(payload.collection_id)))

\* A creation that swaps the two timestamps.
NewPromptSwappedStamps(id, payload, created_at, updated_at) ==
    Prompt(id, Get(payload.title), Get(payload.content), payload.description,
           payload.collection_id,
           LowerAll(IF IsNone(payload.tags) THEN <<>> ELSE Get(payload.tags)),
           updated_at, created_at)

\* create_prompt: model_dump(), tags lowercased, Prompt(**prompt_dict).
NewPrompt(id, payload, created_at, updated_at) ==
    Prompt(id, Get(payload.title), Get(payload.content), payload.description,
           payload.collection_id,
           LowerAll(IF IsNone(payload.tags) THEN <<>> ELSE Get(payload.tags)),
           created_at, updated_at)

\* "x if getattr(prompt_data, 'x', None) is not None else existing.x" for a
\* field the Prompt holds as a plain value (title, content, tags).
MergePlain(given, old) == IF ~IsNone(given) THEN Get(given) ELSE old

\* A strict replace: a field left out of the body is cleared.
MergeOptionalStrict(given, old) == given

\* The same for a field the Prompt holds as an Optional (description,
\* collection_id).
MergeOptional(given, old) == IF ~IsNone(given) THEN given ELSE old

\* A PUT that stores the tags as given, without lowercasing them.
PutTagsVerbatim(payload, existing) == MergePlain(payload.tags, existing.tags)

\* update_prompt: "if tags: tags = [tag.lower() for tag in tags]".
PutTags(payload, existing) ==
    LET tags == MergePlain(payload.tags, existing.tags)
    IN  IF tags # <<>> THEN LowerAll(tags) ELSE tags

\* A PATCH that normalizes the merged tags like a tag add: stripped and
\* lowercased, kept tags included.
PatchTagsStripping(payload, existing) ==
    LET tags == MergePlain(payload.tags, existing.tags)
    IN  [i \in 1..Len(tags) |-> Lower(Strip(tags[i]))]

\* patch_prompt: "if tags and prompt_data.tags is not None: ...".
PatchTags(payload, existing) ==
    LET tags == MergePlain(payload.tags, existing.tags)
    IN  IF tags # <<>> /\ ~IsNone(payload.tags) THEN LowerAll(tags) ELSE tags

\* The timestamp is carried over from the stored prompt instead of refreshed.
UpdateStampStale(existing, t) == existing.updated_at

\* updated_at=get_current_time() in update_prompt and patch_prompt.
UpdateStamp(existing, t) == t

\* A merge that builds a fresh Prompt without created_at=existing.created_at,
\* so the default factory stamps it anew.
MergedPromptFreshCreatedAt(existing, payload, tags, t) ==
    Prompt(existing.id,
           MergePlain(payload.title, existing.title),
           MergePlain(payload.content, existing.content),
           MergeOptional(payload.description, existing.description),
           MergeOptional(payload.collection_id, existing.collection_id),
           tags,
           t,
           UpdateStamp(existing, t))

\* The Prompt(...) built by update_prompt / patch_prompt.
MergedPrompt(existing, payload, tags, t) ==
    Prompt(existing.id,
           MergePlain(payload.title, existing.title),
           MergePlain(payload.content, existing.content),
           MergeOptional(payload.description, existing.description),
           MergeOptional(payload.collection_id, existing.collection_id),
           tags,
           existing.created_at,
           UpdateStamp(existing, t))

\* A construction that skips the field constraints (model_construct).
ValidPromptUnchecked(p) == TRUE

ValidPrompt(p) == ValidPromptBase(p.title, p.content, p.description)

\* A normalization that lowercases without stripping.
NormalizeTagUnstripped(raw) == Lower(raw)

\* add_tag_to_prompt: tag_data.tag.strip().lower()
NormalizeTag(raw) == Lower(Strip(raw))

\* An append without the membership test.
AddTagAlways(tags, tag) == Append(tags, tag)

\* add_tag_to_prompt: "if tag not in prompt.tags: prompt.tags.append(tag)".
AddTag(tags, tag) == IF tag \notin Range(tags) THEN Append(tags, tag) ELSE tags

\* A tag add that rebuilds the prompt without its collection.
TaggedPromptDetached(existing, tag) ==
    [existing EXCEPT !.tags = AddTag(existing.tags, tag), !.collection_id = None]

\* The prompt add_tag_to_prompt hands to storage.update_prompt: the stored
\* object with its tags list changed in place, nothing else touched.
TaggedPrompt(existing, tag) == [existing EXCEPT !.tags = AddTag(existing.tags, tag)]

\* The prompt remove_tag_from_prompt hands to storage.update_prompt.
UntaggedPrompt(existing, tag) == [existing EXCEPT !.tags = ListRemove(existing.tags, tag)]

\* What a handler leaves behind: its status and the prompts mapping.
Outcome(status, ps) == [status |-> status, prompts |-> ps]

\* update_prompt run to its end from the store (ps, cs) at time t.
PutOutcome(ps, cs, id, payload, t) ==
    LET found == StorageGet(ps, id)
        existing == Get(found)
        updated == MergedPrompt(existing, payload, PutTags(payload, existing), t)
    IN  IF IsNone(found) THEN Outcome(404, ps)
        ELSE IF CollectionMissing(payload, cs) THEN Outcome(400, ps)
        ELSE IF ~ValidPrompt(updated) THEN Outcome(500, ps)
        ELSE Outcome(200, StorageUpdatePrompt(ps, id, updated))

\* patch_prompt run to its end from the store (ps, cs) at time t.
PatchOutcome(ps, cs, id, payload, t) ==
    LET found == StorageGet(ps, id)
        existing == Get(found)
        patched == MergedPrompt(existing, payload, PatchTags(payload, existing), t)
    IN  IF IsNone(found) THEN Outcome(404, ps)
        ELSE IF CollectionMissing(payload, cs) THEN Outcome(400, ps)
        ELSE IF ~ValidPrompt(patched) THEN Outcome(500, ps)
        ELSE Outcome(200, StorageUpdatePrompt(ps, id, patched))

(***************************************************************************)
(* Inputs of the requests.                                                 *)
(***************************************************************************)
\* The string of n copies of ch.
RECURSIVE Repeat(_, _)
Repeat(ch, n) ==
    IF n = 0 THEN ""
    ELSE LET half == Repeat(ch, n \div 2)
         IN  half \o half \o (IF n % 2 = 1 THEN ch ELSE "")

\* Strings one character longer than the models allow.
TitleTooLong == Repeat("t", TitleMaxLen + 1)
DescriptionTooLong == Repeat("d", DescriptionMaxLen + 1)
NameTooLong == Repeat("n", NameMaxLen + 1)

NameInputs == {"N1", "", NameTooLong}

PromptIdInputs == 1..MaxPrompts

\* "" is falsy in Python, "zz" is the id of no collection.
CollectionIdInputs == {"", "zz"} \cup {CollId(n) : n \in 1..MaxCollections}

TagInputs == {<<>>, <<" ">>, <<"A">>, <<" ", "a">>}

TagListInputs == {<<>>, << <<" ", "A">>, <<"a">>, <<"A">> >>}

CreatePayloads ==
    {Payload(Some("T1"), Some("X1"), None, c, Some(l)) :
        c \in {None} \cup {Some(x) : x \in CollectionIdInputs}, l \in TagListInputs}
    \cup {Payload(Some(""), Some("X1"), None, None, None),
          Payload(None, Some("X1"), None, None, None),
          Payload(Some(TitleTooLong), Some("X1"), None, None, None)}

UpdatePayloads ==
    {NoPayload,
     Payload(Some("T2"), None, None, None, None),
     Payload(Some("T2"), Some("X2"), Some("D1"), Some(CollId(1)), Some(<< <<"A">> >>)),
     Payload(Some(""), None, None, None, None),
     Payload(Some(TitleTooLong), None, None, None, None),
     Payload(None, None, Some(DescriptionTooLong), None, None)}
    \cup {Payload(None, None, None, Some(x), None) : x \in CollectionIdInputs}
    \cup {Payload(None, None, None, None, Some(l)) : l \in TagListInputs}

(***************************************************************************)
(* The sequential server: one request is served at a time, each handler    *)
(* runs from its first line to its response.                               *)
(***************************************************************************)
\* The request r is answered; the store becomes (ps, cs).
Serve(r, status, body, ps, cs) ==
    /\ req' = r
    /\ resp' = Response(status, body)
    /\ prevPrompts' = prompts
    /\ prevCollections' = collections
    /\ prevNow' = now
    /\ prompts' = ps
    /\ collections' = cs
    /\ UNCHANGED threads

\* The request r is refused; the store is left alone.
Refuse(r, status) ==
    /\ Serve(r, status, None, prompts, collections)
    /\ UNCHANGED <<now, nextPid, nextCid>>

\* The clock advances between two requests.
Tick ==
    /\ now < MaxTime
    /\ now' = now + 1
    /\ Serve(NoRequest, 0, None, prompts, collections)
    /\ UNCHANGED <<nextPid, nextCid>>

\* A lookup that takes the entry out of the mapping (dict.pop for dict.get).
GetPromptPopping(id) ==
    LET r == Request("get_prompt", id, "", NoPayload, <<>>)
        prompt == StorageGet(prompts, id)
    IN  IF IsNone(prompt) THEN Refuse(r, 404)
        ELSE /\ Serve(r, 200, prompt, StorageDelete(prompts, id), collections)
             /\ UNCHANGED <<now, nextPid, nextCid>>

\* GET /prompts/{prompt_id}
GetPrompt(id) ==
    LET r == Request("get_prompt", id, "", NoPayload, <<>>)
        prompt == StorageGet(prompts, id)
    IN  IF IsNone(prompt) THEN Refuse(r, 404)
        ELSE /\ Serve(r, 200, prompt, prompts, collections)
             /\ UNCHANGED <<now, nextPid, nextCid>>

\* A creation that numbers the new prompt by the count of stored prompts
\* (len(prompts) + 1) instead of asking generate_id() for a fresh id.
CreatePromptCounting(payload, dt, limit) ==
    LET r == Request("create_prompt", 0, "", payload, <<>>)
        prompt == NewPrompt(Cardinality(DOMAIN prompts) + 1, payload, now, now + dt)
    IN  IF ~ValidPromptCreate(payload) THEN dt = 0 /\ Refuse(r, 422)
        ELSE IF CollectionMissing(payload, collections) THEN dt = 0 /\ Refuse(r, 400)
        ELSE /\ nextPid < limit
             /\ now + dt <= MaxTime
             /\ Serve(r, 201, Some(prompt), StorageCreate(prompts, prompt), collections)
             /\ nextPid' = nextPid + 1
             /\ now' = now + dt
             /\ UNCHANGED nextCid

\* POST /prompts.  The two default factories of Prompt read the clock one
\* after the other: it may advance by dt in between.  The id factory
\* generate_id() hands out a fresh id: the next natural.
\* No more than limit prompts are ever created.
CreatePromptWithin(payload, dt, limit) ==
    LET r == Request("create_prompt", 0, "", payload, <<>>)
        prompt == NewPrompt(nextPid + 1, payload, now, now + dt)
    IN  IF ~ValidPromptCreate(payload) THEN dt = 0 /\ Refuse(r, 422)
        ELSE IF CollectionMissing(payload, collections) THEN dt = 0 /\ Refuse(r, 400)
        ELSE /\ nextPid < limit
             /\ now + dt <= MaxTime
             /\ Serve(r, 201, Some(prompt), StorageCreate(prompts, prompt), collections)
             /\ nextPid' = nextPid + 1
             /\ now' = now + dt
             /\ UNCHANGED nextCid

CreatePrompt(payload, dt) == CreatePromptWithin(payload, dt, MaxPrompts)

\* An update that runs the content check on the merged prompt and refuses
\* a content that fails it.
UpdatePromptValidating(id, payload) ==
    LET r == Request("update_prompt", id, "", payload, <<>>)
        found == StorageGet(prompts, id)
        existing == Get(found)
        updated == MergedPrompt(existing, payload, PutTags(payload, existing), now)
    IN  IF IsNone(found) THEN Refuse(r, 404)
        ELSE IF CollectionMissing(payload, collections) THEN Refuse(r, 400)
        ELSE IF ~ValidPrompt(updated) THEN Refuse(r, 500)
        ELSE IF ~ValidatePromptContent(updated.content) THEN Refuse(r, 422)
        ELSE /\ Serve(r, 200, Some(updated),
                      StorageUpdatePrompt(prompts, id, updated), collections)
             /\ UNCHANGED <<now, nextPid, nextCid>>

\* PUT /prompts/{prompt_id}
UpdatePrompt(id, payload) ==
    LET r == Request("update_prompt", id, "", payload, <<>>)
        found == StorageGet(prompts, id)
        existing == Get(found)
        updated == MergedPrompt(existing, payload, PutTags(payload, existing), now)
    IN  IF IsNone(found) THEN Refuse(r, 404)
        ELSE IF CollectionMissing(payload, collections) THEN Refuse(r, 400)
        ELSE IF ~ValidPrompt(updated) THEN Refuse(r, 500)
        ELSE /\ Serve(r, 200, Some(updated),
                      StorageUpdatePrompt(prompts, id, updated), collections)
             /\ UNCHANGED <<now, nextPid, nextCid>>

\* A patch without the existence check: an unknown id is created from the
\* payload.
PatchPromptUpsert(id, payload) ==
    LET r == Request("patch_prompt", id, "", payload, <<>>)
        found == StorageGet(prompts, id)
        existing == Get(found)
        patched == MergedPrompt(existing, payload, PatchTags(payload, existing), now)
        fresh == NewPrompt(id, payload, now, now)
    IN  IF IsNone(found)
        THEN IF ~ValidPromptCreate(payload) THEN Refuse(r, 500)
             ELSE /\ Serve(r, 200, Some(fresh), StorageCreate(prompts, fresh), collections)
                  /\ UNCHANGED <<now, nextPid, nextCid>>
        ELSE IF CollectionMissing(payload, collections) THEN Refuse(r, 400)
        ELSE IF ~ValidPrompt(patched) THEN Refuse(r, 500)
        ELSE /\ Serve(r, 200, Some(patched),
                      StorageUpdatePrompt(prompts, id, patched), collections)
             /\ UNCHANGED <<now, nextPid, nextCid>>

\* PATCH /prompts/{prompt_id}
PatchPrompt(id, payload) ==
    LET r == Request("patch_prompt", id, "", payload, <<>>)
        found == StorageGet(prompts, id)
        existing == Get(found)
        patched == MergedPrompt(existing, payload, PatchTags(payload, existing), now)
    IN  IF IsNone(found) THEN Refuse(r, 404)
        ELSE IF CollectionMissing(payload, collections) THEN Refuse(r, 400)
        ELSE IF ~ValidPrompt(patched) THEN Refuse(r, 500)
        ELSE /\ Serve(r, 200, Some(patched),
                      StorageUpdatePrompt(prompts, id, patched), collections)
             /\ UNCHANGED <<now, nextPid, nextCid>>

\* A delete that ignores the store's answer and always reports success.
DeletePromptSilent(id) ==
    LET r == Request("delete_prompt", id, "", NoPayload, <<>>)
    IN  /\ Serve(r, 204, None, StorageDelete(prompts, id), collections)
        /\ UNCHANGED <<now, nextPid, nextCid>>

\* DELETE /prompts/{prompt_id}
DeletePrompt(id) ==
    LET r == Request("delete_prompt", id, "", NoPayload, <<>>)
    IN  IF id \notin DOMAIN prompts THEN Refuse(r, 404)
        ELSE /\ Serve(r, 204, None, StorageDelete(prompts, id), collections)
             /\ UNCHANGED <<now, nextPid, nextCid>>

\* POST /collections.  No more than limit collections are ever created.
CreateCollectionWithin(name, limit) ==
    LET r == Request("create_collection", 0, "", Payload(Some(name), None, None, None, None), <<>>)
        collection == Collection(CollId(nextCid + 1), name, None, now)
    IN  IF ~ValidCollectionBase(name, None) THEN Refuse(r, 422)
        ELSE /\ nextCid < limit
             /\ Serve(r, 201, Some(collection), prompts,
                      StorageCreate(collections, collection))
             /\ nextCid' = nextCid + 1
             /\ UNCHANGED <<now, nextPid>>

CreateCollection(name) == CreateCollectionWithin(name, MaxCollections)

\* GET /collections/{collection_id}
GetCollection(cid) ==
    LET r == Request("get_collection", 0, cid, NoPayload, <<>>)
        collection == StorageGet(collections, cid)
    IN  IF IsNone(collection) THEN Refuse(r, 404)
        ELSE /\ Serve(r, 200, collection, prompts, collections)
             /\ UNCHANGED <<now, nextPid, nextCid>>

\* storage.get_all_collections(): the stored collections in insertion
\* order, which is the order of their ids c1, c2, ...
StorageGetAllCollections(db) ==
    LET stored == {n \in 1..nextCid : CollId(n) \in DOMAIN db}
        nth(k) == CHOOSE n \in stored : Cardinality({m \in stored : m < n}) = k - 1
    IN  [k \in 1..Cardinality(stored) |-> db[CollId(nth(k))]]

CollectionList(cs) == [collections |-> cs, total |-> Len(cs)]

\* GET /collections
ListCollections ==
    /\ Serve(Request("list_collections", 0, "", NoPayload, <<>>), 200,
             Some(CollectionList(StorageGetAllCollections(collections))),
             prompts, collections)
    /\ UNCHANGED <<now, nextPid, nextCid>>

\* A delete that takes the prompts of the collection away with it.
DeleteCollectionCascading(cid) ==
    LET r == Request("delete_collection", 0, cid, NoPayload, <<>>)
        kept == {p \in DOMAIN prompts : prompts[p].collection_id # Some(cid)}
    IN  IF cid \notin DOMAIN collections THEN Refuse(r, 404)
        ELSE /\ Serve(r, 204, None, [p \in kept |-> prompts[p]],
                      StorageDelete(collections, cid))
             /\ UNCHANGED <<now, nextPid, nextCid>>

\* DELETE /collections/{collection_id}
DeleteCollection(cid) ==
    LET r == Request("delete_collection", 0, cid, NoPayload, <<>>)
    IN  IF cid \notin DOMAIN collections THEN Refuse(r, 404)
        ELSE /\ Serve(r, 204, None, StorageOrphanPrompts(prompts, cid),
                      StorageDelete(collections, cid))
             /\ UNCHANGED <<now, nextPid, nextCid>>

\* The code point of a character, which orders Python strings.
CharCode(ch) ==
    CASE ch = " " -> 32
      [] ch = "A" -> 65
      [] ch = "B" -> 66
      [] ch = "a" -> 97
      [] ch = "b" -> 98
      [] ch = "x" -> 120

\* a < b on strings: lexicographic by code point, a proper prefix first.
RECURSIVE StrLess(_, _)
StrLess(a, b) ==
    IF b = <<>> THEN FALSE
    ELSE IF a = <<>> THEN TRUE
    ELSE IF Head(a) = Head(b) THEN StrLess(Tail(a), Tail(b))
    ELSE CharCode(Head(a)) < CharCode(Head(b))

\* sorted(list(all_tags)) of a set of strings.
RECURSIVE Sorted(_)
Sorted(all_tags) ==
    IF all_tags = {} THEN <<>>
    ELSE LET least == CHOOSE x \in all_tags : \A y \in all_tags \ {x} : StrLess(x, y)
         IN  <<least>> \o Sorted(all_tags \ {least})

\* get_all_tags: the set built by all_tags.update(prompt.tags) over
\* storage.get_all_prompts().
AllTags(db) == UNION {Range(db[p].tags) : p \in DOMAIN db}

TagList(tags) == [tags |-> tags]

\* GET /tags
GetAllTags ==
    /\ Serve(Request("get_all_tags", 0, "", NoPayload, <<>>), 200,
             Some(TagList(Sorted(AllTags(prompts)))), prompts, collections)
    /\ UNCHANGED <<now, nextPid, nextCid>>

\* POST /prompts/{prompt_id}/tags
AddTagToPrompt(id, raw) ==
    LET r == Request("add_tag_to_prompt", id, "", NoPayload, raw)
        found == StorageGet(prompts, id)
        tag == NormalizeTag(raw)
        updated == TaggedPrompt(Get(found), tag)
    IN  IF ~ValidTagAdd(raw) THEN Refuse(r, 422)
        ELSE IF IsNone(found) THEN Refuse(r, 404)
        ELSE IF tag = <<>> THEN Refuse(r, 422)
        ELSE /\ Serve(r, 200, Some(updated),
                      StorageUpdatePrompt(prompts, id, updated), collections)
             /\ UNCHANGED <<now, nextPid, nextCid>>

\* A removal without the membership test: a tag that is not there is
\* reported as removed.
RemoveTagFromPromptLenient(id, raw) ==
    LET r == Request("remove_tag_from_prompt", id, "", NoPayload, raw)
        found == StorageGet(prompts, id)
        tag == Lower(raw)
        updated == UntaggedPrompt(Get(found), tag)
    IN  IF IsNone(found) THEN Refuse(r, 404)
        ELSE /\ Serve(r, 204, None,
                      StorageUpdatePrompt(prompts, id, updated), collections)
             /\ UNCHANGED <<now, nextPid, nextCid>>

\* DELETE /prompts/{prompt_id}/tags/{tag}
RemoveTagFromPrompt(id, raw) ==
    LET r == Request("remove_tag_from_prompt", id, "", NoPayload, raw)
        found == StorageGet(prompts, id)
        tag == Lower(raw)
        updated == UntaggedPrompt(Get(found), tag)
    IN  IF IsNone(found) THEN Refuse(r, 404)
        ELSE IF tag \notin Range(Get(found).tags) THEN Refuse(r, 404)
        ELSE /\ Serve(r, 204, None,
                      StorageUpdatePrompt(prompts, id, updated), collections)
             /\ UNCHANGED <<now, nextPid, nextCid>>

(***************************************************************************)
(* The concurrent server: the handlers are plain "def" functions, which    *)
(* FastAPI runs on worker threads, so requests interleave between their    *)
(* calls into the store.  Each store call is one atomic step.              *)
(***************************************************************************)
Threads == 1..NumThreads

\* A worker thread: where it is in its handler, the request it serves and
\* the handler's local "existing".
Thread(pc, r, existing) == [pc |-> pc, req |-> r, existing |-> existing]

Idle == Thread("idle", NoRequest, None)

ConcCreatePayloads ==
    {Payload(Some("T1"), Some("X1"), None, c, None) :
        c \in {None} \cup {Some(CollId(n)) : n \in 1..MaxCollections}}

ConcUpdatePayloads ==
    {Payload(Some("T2"), None, None, None, None)}
    \cup {Payload(None, None, None, Some(CollId(n)), None) : n \in 1..MaxCollections}

SetThread(t, th) ==
    /\ threads' = [threads EXCEPT ![t] = th]
    /\ UNCHANGED history

\* The requests of kind op that workers are serving.
InFlight(op) == {t \in Threads : threads[t].pc # "idle" /\ threads[t].req.op = op}

\* A request arrives and is handed to the idle worker t.  No more prompts
\* are created than the model has ids for.
Accept(t, op, id, payload) ==
    /\ threads[t].pc = "idle"
    /\ op = "create_prompt" => nextPid + Cardinality(InFlight(op)) < MaxPrompts
    /\ SetThread(t, Thread("start", Request(op, id, "", payload, <<>>), None))
    /\ UNCHANGED <<store, now>>

\* The clock advances while requests are in flight.
ConcTick ==
    /\ now < MaxTime
    /\ now' = now + 1
    /\ UNCHANGED <<store, history, threads>>

\* create_prompt, lines 82-85: the collection-exists check.
ConcCreateCheck(t) ==
    /\ threads[t].pc = "start"
    /\ threads[t].req.op = "create_prompt"
    /\ IF CollectionMissing(threads[t].req.payload, collections)
       THEN SetThread(t, Idle)
       ELSE SetThread(t, [threads[t] EXCEPT !.pc = "write"])
    /\ UNCHANGED <<store, now>>

\* create_prompt, lines 88-92: Prompt(**prompt_dict) and storage.create_prompt.
ConcCreateStore(t) ==
    LET prompt == NewPrompt(nextPid + 1, threads[t].req.payload, now, now)
    IN  /\ threads[t].pc = "write"
        /\ threads[t].req.op = "create_prompt"
        /\ prompts' = StorageCreate(prompts, prompt)
        /\ nextPid' = nextPid + 1
        /\ SetThread(t, Idle)
        /\ UNCHANGED <<collections, nextCid, now>>

\* A handler that keeps "existing" in a module-level variable: what one
\* worker reads, every worker sees.
ConcUpdateGetShared(t) ==
    LET found == StorageGet(prompts, threads[t].req.pid)
    IN  /\ threads[t].pc = "start"
        /\ threads[t].req.op \in {"update_prompt", "patch_prompt"}
        /\ IF IsNone(found)
           THEN SetThread(t, Idle)
           ELSE /\ threads' = [u \in Threads |->
                                 IF u = t THEN [threads[u] EXCEPT !.pc = "check", !.existing = found]
                                 ELSE IF threads[u].pc = "idle" THEN threads[u]
                                 ELSE [threads[u] EXCEPT !.existing = found]]
                /\ UNCHANGED history
        /\ UNCHANGED <<store, now>>

\* update_prompt / patch_prompt: existing = storage.get_prompt(prompt_id).
ConcUpdateGet(t) ==
    LET found == StorageGet(prompts, threads[t].req.pid)
    IN  /\ threads[t].pc = "start"
        /\ threads[t].req.op \in {"update_prompt", "patch_prompt"}
        /\ IF IsNone(found)
           THEN SetThread(t, Idle)
           ELSE SetThread(t, [threads[t] EXCEPT !.pc = "check", !.existing = found])
        /\ UNCHANGED <<store, now>>

\* update_prompt / patch_prompt: the collection-exists check.
ConcUpdateCheck(t) ==
    /\ threads[t].pc = "check"
    /\ IF CollectionMissing(threads[t].req.payload, collections)
       THEN SetThread(t, Idle)
       ELSE SetThread(t, [threads[t] EXCEPT !.pc = "write"])
    /\ UNCHANGED <<store, now>>

\* update_prompt / patch_prompt: the merge and storage.update_prompt.
ConcUpdateStore(t) ==
    LET th == threads[t]
        existing == Get(th.existing)
        tags == IF th.req.op = "update_prompt" THEN PutTags(th.req.payload, existing)
                ELSE PatchTags(th.req.payload, existing)
        updated == MergedPrompt(existing, th.req.payload, tags, now)
    IN  /\ th.pc = "write"
        /\ th.req.op \in {"update_prompt", "patch_prompt"}
        /\ prompts' = IF ValidPrompt(updated)
                      THEN StorageUpdatePrompt(prompts, th.req.pid, updated)
                      ELSE prompts
        /\ SetThread(t, Idle)
        /\ UNCHANGED <<collections, nextPid, nextCid, now>>

\* create_collection: one call into the store.
ConcCreateCollection(t) ==
    /\ threads[t].pc = "idle"
    /\ nextCid < MaxCollections
    /\ collections' = StorageCreate(collections, Collection(CollId(nextCid + 1), "N1", None, now))
    /\ nextCid' = nextCid + 1
    /\ UNCHANGED <<prompts, nextPid, now, history, threads>>

\* delete_collection: one call into the store, storage.delete_collection,
\* which removes the collection and orphans its prompts.
ConcDeleteCollection(t, cid) ==
    /\ threads[t].pc = "idle"
    /\ cid \in DOMAIN collections
    /\ collections' = StorageDelete(collections, cid)
    /\ prompts' = StorageOrphanPrompts(prompts, cid)
    /\ UNCHANGED <<nextPid, nextCid, now, history, threads>>

\* delete_prompt: one call into the store.
ConcDeletePrompt(t, id) ==
    /\ threads[t].pc = "idle"
    /\ id \in DOMAIN prompts
    /\ prompts' = StorageDelete(prompts, id)
    /\ UNCHANGED <<collections, nextPid, nextCid, now, history, threads>>

\* The ids that requests in flight are working on.
BusyIds == {threads[u].req.pid : u \in {v \in Threads : threads[v].pc # "idle"}}

\* An update of prompt id arrives while no other request on that id is in
\* flight, and is handed to the idle worker t.
AcceptOther(t, op, id, payload, raw) ==
    /\ threads[t].pc = "idle"
    /\ id \notin BusyIds
    /\ SetThread(t, Thread("start", Request(op, id, "", payload, raw), None))
    /\ UNCHANGED <<store, now>>

\* The prompt object a tag request holds: the stored object, or, once a
\* delete has taken it out of the store, the object as the worker read it.
Held(t) ==
    IF threads[t].req.pid \in DOMAIN prompts THEN prompts[threads[t].req.pid]
    ELSE Get(threads[t].existing)

\* add_tag_to_prompt, lines 226-228: prompt = storage.get_prompt(prompt_id).
\* The worker keeps the prompt as it was when read.
ConcAddTagGet(t) ==
    LET found == StorageGet(prompts, threads[t].req.pid)
    IN  /\ threads[t].pc = "start"
        /\ threads[t].req.op = "add_tag_to_prompt"
        /\ IF IsNone(found)
           THEN SetThread(t, Idle)
           ELSE SetThread(t, [threads[t] EXCEPT !.pc = "tag", !.existing = found])
        /\ UNCHANGED <<store, now>>

\* add_tag_to_prompt, lines 231-239: the tag is normalized and appended to
\* prompt.tags, the list of the stored object, which the store shows at once.
ConcAddTagAppend(t) ==
    LET id == threads[t].req.pid
        tag == NormalizeTag(threads[t].req.tag)
    IN  /\ threads[t].pc = "tag"
        /\ threads[t].req.op = "add_tag_to_prompt"
        /\ IF tag = <<>>
           THEN /\ SetThread(t, Idle)
                /\ UNCHANGED prompts
           ELSE /\ SetThread(t, [threads[t] EXCEPT !.pc = "write"])
                /\ prompts' = StorageUpdatePrompt(prompts, id, TaggedPrompt(Held(t), tag))
        /\ UNCHANGED <<collections, nextPid, nextCid, now>>

\* add_tag_to_prompt, line 242: storage.update_prompt(prompt_id, prompt) with
\* the stored object itself.
ConcAddTagStore(t) ==
    LET id == threads[t].req.pid
        tag == NormalizeTag(threads[t].req.tag)
    IN  /\ threads[t].pc = "write"
        /\ threads[t].req.op = "add_tag_to_prompt"
        /\ prompts' = StorageUpdatePrompt(prompts, id, TaggedPrompt(Held(t), tag))
        /\ SetThread(t, Idle)
        /\ UNCHANGED <<collections, nextPid, nextCid, now>>

\* create_prompt for a payload without collection_id: one call into the
\* store, storage.create_prompt.
ConcCreatePrompt(payload) ==
    LET prompt == NewPrompt(nextPid + 1, payload, now, now)
    IN  /\ nextPid < MaxQueryPrompts
        /\ IsNone(payload.collection_id)
        /\ prompts' = StorageCreate(prompts, prompt)
        /\ nextPid' = nextPid + 1
        /\ UNCHANGED <<collections, nextCid, now, history, threads>>

\* get_prompt: one call into the store, storage.get_prompt, and the answer.
ConcGetPrompt(id) ==
    LET found == StorageGet(prompts, id)
    IN  /\ req' = Request("get_prompt", id, "", NoPayload, <<>>)
        /\ resp' = Response(IF IsNone(found) THEN 404 ELSE 200, found)
        /\ UNCHANGED <<store, now, prevPrompts, prevCollections, prevNow, threads>>

\* remove_tag_from_prompt, lines 249-251: prompt = storage.get_prompt(prompt_id).
ConcRemoveTagGet(t) ==
    LET found == StorageGet(prompts, threads[t].req.pid)
    IN  /\ threads[t].pc = "start"
        /\ threads[t].req.op = "remove_tag_from_prompt"
        /\ IF IsNone(found)
           THEN SetThread(t, Idle)
           ELSE SetThread(t, [threads[t] EXCEPT !.pc = "tag", !.existing = found])
        /\ UNCHANGED <<store, now>>

\* remove_tag_from_prompt, lines 254-261: the membership test and
\* prompt.tags.remove(tag) on the list of the held object.
ConcRemoveTagDrop(t) ==
    LET id == threads[t].req.pid
        tag == Lower(threads[t].req.tag)
    IN  /\ threads[t].pc = "tag"
        /\ threads[t].req.op = "remove_tag_from_prompt"
        /\ IF tag \notin Range(Held(t).tags)
           THEN /\ SetThread(t, Idle)
                /\ UNCHANGED prompts
           ELSE /\ SetThread(t, [threads[t] EXCEPT !.pc = "write"])
                /\ prompts' = StorageUpdatePrompt(prompts, id, UntaggedPrompt(Held(t), tag))
        /\ UNCHANGED <<collections, nextPid, nextCid, now>>

\* remove_tag_from_prompt, line 264: storage.update_prompt(prompt_id, prompt)
\* with the held object, whose list has lost the tag.
ConcRemoveTagStore(t) ==
    LET id == threads[t].req.pid
        tag == Lower(threads[t].req.tag)
        held == IF id \in DOMAIN prompts THEN Held(t) ELSE UntaggedPrompt(Held(t), tag)
    IN  /\ threads[t].pc = "write"
        /\ threads[t].req.op = "remove_tag_from_prompt"
        /\ prompts' = StorageUpdatePrompt(prompts, id, held)
        /\ SetThread(t, Idle)
        /\ UNCHANGED <<collections, nextPid, nextCid, now>>

\* Requests racing on one prompt: two updates of it, or a request that
\* writes it and a delete of it.
UpdateOps == {"update_prompt", "patch_prompt"}

TagOps == {"add_tag_to_prompt", "remove_tag_from_prompt"}

RaceCreatePayloads == {Payload(Some("T1"), Some("X1"), None, None, Some(<< <<"a">> >>))}

RaceContentPayload == Payload(None, Some("X2"), None, None, None)

\* The workers serving a request of one of the kinds ops on prompt id.
InFlightOn(id, ops) ==
    {u \in Threads : threads[u].pc # "idle" /\ threads[u].req.pid = id /\ threads[u].req.op \in ops}

\* A request on prompt id arrives and is handed to the idle worker t.  A tag
\* request edits the stored object in place: it runs apart from the other
\* writers of its prompt, deletes excepted.
AcceptRace(t, op, id, payload, raw) ==
    /\ threads[t].pc = "idle"
    /\ op \in TagOps => InFlightOn(id, TagOps \cup UpdateOps) = {}
    /\ op \in UpdateOps => InFlightOn(id, TagOps) = {}
    /\ SetThread(t, Thread("start", Request(op, id, "", payload, raw), None))
    /\ UNCHANGED <<store, now>>

\* The requests of the server updating different prompts at the same time.
PairPutPayload == Payload(Some("T2"), None, None, None, None)

PairPatchPayload == Payload(None, None, None, None, Some(<< <<"B">> >>))

(***************************************************************************)
(* The query pipeline of list_prompts.  Here titles, contents, descriptions *)
(* and search strings are sequences of characters, like tags, so that       *)
(* lowercasing and substring containment are computed.                      *)
(***************************************************************************)
\* Python's "q in s" on strings.
IsSubstring(q, s) == \E i \in 0..(Len(s) - Len(q)) : SubSeq(s, i + 1, i + Len(q)) = q

\* storage.get_all_prompts(): the stored prompts in insertion order, which is
\* the order of their ids.
RECURSIVE ValuesFrom(_, _)
ValuesFrom(db, ids) ==
    IF ids = {} THEN <<>>
    ELSE LET first == CHOOSE x \in ids : \A y \in ids : x <= y
         IN  <<db[first]>> \o ValuesFrom(db, ids \ {first})

StorageGetAll(db) == ValuesFrom(db, DOMAIN db)

\* utils.filter_prompts_by_collection(prompts, collection_id)
FilterPromptsByCollection(ps, collection_id) ==
    SelectSeq(ps, LAMBDA p : p.collection_id = collection_id)

\* utils.search_prompts(prompts, query)
SearchPrompts(ps, query) ==
    SelectSeq(ps, LAMBDA p :
        \/ IsSubstring(Lower(query), Lower(p.title))
        \/ /\ ~IsNone(p.description)
           /\ IsSubstring(Lower(query), Lower(Get(p.description))))

\* A tag filter that matches inside the tags.
FilterByTagSubstring(ps, tag) ==
    SelectSeq(ps, LAMBDA p : \E x \in Range(p.tags) : IsSubstring(Lower(tag), x))

\* [p for p in prompts if tag.lower() in p.tags]
FilterByTag(ps, tag) == SelectSeq(ps, LAMBDA p : Lower(tag) \in Range(p.tags))

\* utils.sort_prompts_by_date(prompts, descending): a stable sort on
\* created_at.
Before(a, b, descending) ==
    IF descending THEN a.created_at >= b.created_at ELSE a.created_at <= b.created_at

RECURSIVE InsertByDate(_, _, _)
InsertByDate(sorted, p, descending) ==
    IF sorted = <<>> THEN <<p>>
    ELSE IF Before(Head(sorted), p, descending)
         THEN <<Head(sorted)>> \o InsertByDate(Tail(sorted), p, descending)
         ELSE <<p>> \o sorted

RECURSIVE SortPromptsByDate(_, _)
SortPromptsByDate(ps, descending) ==
    IF ps = <<>> THEN <<>>
    ELSE InsertByDate(SortPromptsByDate(SubSeq(ps, 1, Len(ps) - 1), descending),
                      ps[Len(ps)], descending)

\* A collection stage that never filters.
CollectionStageSkipped(ps, collection_id) == ps

\* A collection stage that filters also when no id is given.
CollectionStageAlways(ps, collection_id) == FilterPromptsByCollection(ps, collection_id)

\* "if collection_id: prompts = filter_prompts_by_collection(...)"
CollectionStage(ps, collection_id) ==
    IF TruthyStr(collection_id) THEN FilterPromptsByCollection(ps, collection_id) ELSE ps

\* A search stage that never filters.
SearchStageSkipped(ps, search) == ps

\* "if search: prompts = search_prompts(prompts, search)"
SearchStage(ps, search) ==
    IF ~IsNone(search) /\ Get(search) # <<>> THEN SearchPrompts(ps, Get(search)) ELSE ps

\* A tag stage that never filters.
TagStageSkipped(ps, tag) == ps

\* "if tag: prompts = [p for p in prompts if tag.lower() in p.tags]"
TagStage(ps, tag) ==
    IF ~IsNone(tag) /\ Get(tag) # <<>> THEN FilterByTag(ps, Get(tag)) ELSE ps

\* A listing that asks for the ascending order (descending=False).
ListResultOldestFirst(db, collection_id, search, tag) ==
    SortPromptsByDate(
        TagStage(SearchStage(CollectionStage(StorageGetAll(db), collection_id), search), tag),
        FALSE)

\* The list list_prompts builds from the stored prompts db.
ListResult(db, collection_id, search, tag) ==
    SortPromptsByDate(
        TagStage(SearchStage(CollectionStage(StorageGetAll(db), collection_id), search), tag),
        TRUE)

PromptList(ps) == [prompts |-> ps, total |-> Len(ps)]

\* The query parameters of GET /prompts; a parameter left out is None.
ListRequest(collection_id, search, tag) ==
    [op |-> "list_prompts", collection_id |-> collection_id, search |-> search, tag |-> tag]

\* A listing that filters the store itself: the prompts that fail the
\* filters are dropped from the mapping.
ListPromptsFiltering(collection_id, search, tag) ==
    LET kept == ListResult(prompts, collection_id, search, tag)
    IN  /\ Serve(ListRequest(collection_id, search, tag), 200, Some(PromptList(kept)),
                 [id \in {p.id : p \in Range(kept)} |-> prompts[id]], collections)
        /\ UNCHANGED <<now, nextPid, nextCid>>

\* GET /prompts
ListPrompts(collection_id, search, tag) ==
    /\ Serve(ListRequest(collection_id, search, tag), 200,
             Some(PromptList(ListResult(prompts, collection_id, search, tag))),
             prompts, collections)
    /\ UNCHANGED <<now, nextPid, nextCid>>

\* The prompts the queries run over.
QueryPayloads ==
    {Payload(Some(<<"A", "b">>), Some(<<"x">>), None, None, Some(<< <<"b">>, <<"A">> >>)),
     Payload(Some(<<"b">>), Some(<<"a">>), Some(<<>>), Some(CollId(1)), Some(<< <<"a", "b">> >>)),
     Payload(Some(<<"b">>), Some(<<"x">>), Some(<<"b", "A">>), Some(CollId(1)), Some(<<>>))}

QueryCollectionInputs == {None, Some(""), Some("zz")} \cup {Some(CollId(n)) : n \in 1..MaxCollections}

QuerySearchInputs == {None, Some(<<"A">>), Some(<<"a", "B">>)}

QueryTagInputs == {None, Some(<<>>), Some(<<"A">>)}

QueryCreatePrompt(payload, dt) == CreatePromptWithin(payload, dt, MaxQueryPrompts)

\* The requests of the server that edits prompts between two listings.
OrderCreatePayloads == {Payload(Some("T1"), Some("X1"), None, None, Some(<<>>))}

OrderUpdatePayloads == {Payload(Some("T2"), None, None, None, None)}

OrderTagInputs == {<<"A">>}

OrderListTags == {None, Some(<<"a">>)}

\* The store called directly, as tests/test_storage.py does, with entities
\* the caller has built: the ids are the caller's choice.
StorePrompts ==
    {Prompt(id, title, "X1", None, None, <<>>, 0, 0) :
        id \in 1..MaxQueryPrompts, title \in {"T1", "T2"}}

StoreCollections ==
    {Collection(CollId(n), name, None, 0) : n \in 1..MaxCollections, name \in {"N1", "N2"}}

\* A direct call of the store: the entity handed over travels as the payload.
StoreCall(op, pid, cid, e) == Request(op, pid, cid, e, <<>>)

\* storage.create_prompt(prompt)
StoreCreatePrompt(e) ==
    /\ Serve(StoreCall("storage.create_prompt", e.id, "", e), 0,
             Some(StorageCreateResult(prompts, e)), StorageCreate(prompts, e), collections)
    /\ UNCHANGED <<now, nextPid, nextCid>>

\* storage.create_collection(collection)
StoreCreateCollection(e) ==
    /\ Serve(StoreCall("storage.create_collection", 0, e.id, e), 0,
             Some(StorageCreateResult(collections, e)), prompts, StorageCreate(collections, e))
    /\ UNCHANGED <<now, nextPid, nextCid>>

\* storage.get_prompt(prompt_id)
StoreGetPrompt(id) ==
    /\ Serve(StoreCall("storage.get_prompt", id, "", NoPayload), 0,
             StorageGet(prompts, id), prompts, collections)
    /\ UNCHANGED <<now, nextPid, nextCid>>

\* storage.delete_prompt(prompt_id)
StoreDeletePrompt(id) ==
    /\ Serve(StoreCall("storage.delete_prompt", id, "", NoPayload), 0,
             None, StorageDelete(prompts, id), collections)
    /\ UNCHANGED <<now, nextPid, nextCid>>

\* Texts for the content utilities: a word of up to MaxWord characters, with
\* or without a space inside, between two runs of whitespace.
Word(n, gap) == [i \in 1..n |-> IF gap /\ i = 2 /\ n >= 3 THEN " " ELSE "x"]

ContentInputs ==
    LET pads == UNION {[1..n -> {" ", "\t"}] : n \in 0..MaxPad}
    IN  {lead \o Word(n, gap) \o trail :
            lead \in pads, trail \in pads, n \in 0..MaxWord, gap \in BOOLEAN}

\* Texts with placeholders: up to MaxTokens pieces, well formed or not.
Tokens ==
    {<<"{", "{", "a", "}", "}">>,
     <<"{", "{", "a", "_", "1", "}", "}">>,
     <<"{", "{", "a", "-", "b", "}", "}">>,
     <<"{", "{", "a", " ", "b", "}", "}">>,
     <<"{", "a", "}">>,
     <<"{", "{", "{", "b", "}", "}", "}">>,
     <<"{", "{", "}", "}">>,
     <<"{", "{", "a", "}">>,
     <<"x", " ">>}

RECURSIVE Texts(_)
Texts(n) ==
    IF n = 0 THEN {<<>>}
    ELSE Texts(n - 1) \cup {t \o k : t \in Texts(n - 1), k \in Tokens}

TemplateInputs == Texts(MaxTokens)

\* Contents a client sends: below, at and above the ten characters.
TextContents == {Word(2, FALSE), <<" ">>, Word(MinContentLen - 1, FALSE) \o <<" ">>,
                 Word(MinContentLen, FALSE)}

TextCreatePayloads ==
    {Payload(Some("T1"), Some(x), None, None, Some(<<>>)) : x \in TextContents}

TextUpdatePayloads ==
    {Payload(None, Some(x), None, None, None) : x \in TextContents}
        \cup {Payload(Some("T2"), None, None, None, None)}

UtilCall(op, text) == Request(op, 0, "", Payload(None, Some(text), None, None, None), <<>>)

\* A caller applies validate_prompt_content to a text.
ValidateContent(text) ==
    /\ Serve(UtilCall("validate_prompt_content", text), 0,
             Some(ValidatePromptContent(text)), prompts, collections)
    /\ UNCHANGED <<now, nextPid, nextCid>>

\* A caller applies extract_variables to a text.
ExtractFrom(text) ==
    /\ Serve(UtilCall("extract_variables", text), 0,
             Some(ExtractVariables(text)), prompts, collections)
    /\ UNCHANGED <<now, nextPid, nextCid>>

\* The life of prompts and collections: several of each are created,
\* assigned, updated and deleted, one request at a time.
LifeCollectionIds == {CollId(n) : n \in 1..MaxLifeCollections}

LifeCollectionRefs == {None, Some("")} \cup {Some(cid) : cid \in LifeCollectionIds}

LifeCreatePayloads ==
    {Payload(Some("T1"), Some("X1"), Some("D1"), c, Some(<<>>)) : c \in LifeCollectionRefs}

LifeUpdatePayloads ==
    {Payload(Some("T2"), None, None, None, None)}
        \cup {Payload(None, None, None, c, None) : c \in LifeCollectionRefs \ {None}}

Init ==
    /\ prompts = <<>>
    /\ collections = <<>>
    /\ now = 0
    /\ nextPid = 0
    /\ nextCid = 0
    /\ req = NoRequest
    /\ resp = Response(0, None)
    /\ prevPrompts = <<>>
    /\ prevCollections = <<>>
    /\ prevNow = 0
    /\ threads = [t \in Threads |-> Idle]

Next ==
    \/ Tick
    \/ \E id \in PromptIdInputs : GetPrompt(id)
    \/ \E payload \in CreatePayloads, dt \in {0, 1} : CreatePrompt(payload, dt)
    \/ \E id \in PromptIdInputs, payload \in UpdatePayloads : UpdatePrompt(id, payload)
    \/ \E id \in PromptIdInputs, payload \in UpdatePayloads : PatchPrompt(id, payload)
    \/ \E id \in PromptIdInputs : DeletePrompt(id)
    \/ \E name \in NameInputs : CreateCollection(name)
    \/ \E cid \in CollectionIdInputs : GetCollection(cid)
    \/ \E cid \in CollectionIdInputs : DeleteCollection(cid)
    \/ \E id \in PromptIdInputs, raw \in TagInputs : AddTagToPrompt(id, raw)
    \/ \E id \in PromptIdInputs, raw \in TagInputs \ {<<>>} : RemoveTagFromPrompt(id, raw)
    \/ ListCollections
    \/ GetAllTags

Spec == Init /\ [][Next]_vars

ConcNext ==
    \/ ConcTick
    \/ \E t \in Threads, payload \in ConcCreatePayloads : Accept(t, "create_prompt", 0, payload)
    \/ \E t \in Threads, id \in PromptIdInputs, payload \in ConcUpdatePayloads :
          \E op \in {"update_prompt", "patch_prompt"} : Accept(t, op, id, payload)
    \/ \E t \in Threads : ConcCreateCheck(t)
    \/ \E t \in Threads : ConcCreateStore(t)
    \/ \E t \in Threads : ConcUpdateGet(t)
    \/ \E t \in Threads : ConcUpdateCheck(t)
    \/ \E t \in Threads : ConcUpdateStore(t)
    \/ \E t \in Threads : ConcCreateCollection(t)
    \/ \E t \in Threads, cid \in CollectionIdInputs : ConcDeleteCollection(t, cid)
    \/ \E t \in Threads, id \in PromptIdInputs : ConcDeletePrompt(t, id)

SpecConc == Init /\ [][ConcNext]_vars

\* The server answering list requests over a few stored prompts.
QueryNext ==
    \/ CreateCollection("N1")
    \/ \E payload \in QueryPayloads, dt \in {0, 1} : QueryCreatePrompt(payload, dt)
    \/ \E collection_id \in QueryCollectionInputs, search \in QuerySearchInputs,
          tag \in QueryTagInputs : ListPrompts(collection_id, search, tag)
    \/ \E id \in 1..MaxQueryPrompts : GetPrompt(id)
    \/ \E cid \in CollectionIdInputs : GetCollection(cid)
    \/ ListCollections
    \/ GetAllTags

SpecQuery == Init /\ [][QueryNext]_vars

\* The server creating, editing, tagging and listing a few prompts.
OrderNext ==
    \/ Tick
    \/ \E payload \in OrderCreatePayloads, dt \in {0, 1} : QueryCreatePrompt(payload, dt)
    \/ \E id \in 1..MaxQueryPrompts, payload \in OrderUpdatePayloads : UpdatePrompt(id, payload)
    \/ \E id \in 1..MaxQueryPrompts, payload \in OrderUpdatePayloads : PatchPrompt(id, payload)
    \/ \E id \in 1..MaxQueryPrompts, raw \in OrderTagInputs : AddTagToPrompt(id, raw)
    \/ \E tag \in OrderListTags : ListPrompts(None, None, tag)

SpecOrder == Init /\ [][OrderNext]_vars

\* The concurrent server updating and tagging prompts of different ids while
\* others are read.
PairNext ==
    \/ \E payload \in OrderCreatePayloads : ConcCreatePrompt(payload)
    \/ \E id \in 1..MaxQueryPrompts : ConcGetPrompt(id)
    \/ \E t \in Threads, id \in 1..MaxQueryPrompts :
          AcceptOther(t, "update_prompt", id, PairPutPayload, <<>>)
    \/ \E t \in Threads, id \in 1..MaxQueryPrompts :
          AcceptOther(t, "patch_prompt", id, PairPatchPayload, <<>>)
    \/ \E t \in Threads, id \in 1..MaxQueryPrompts, raw \in OrderTagInputs :
          AcceptOther(t, "add_tag_to_prompt", id, NoPayload, raw)
    \/ \E t \in Threads : ConcUpdateGet(t)
    \/ \E t \in Threads : ConcUpdateCheck(t)
    \/ \E t \in Threads : ConcUpdateStore(t)
    \/ \E t \in Threads : ConcAddTagGet(t)
    \/ \E t \in Threads : ConcAddTagAppend(t)
    \/ \E t \in Threads : ConcAddTagStore(t)

SpecPair == Init /\ [][PairNext]_vars

\* The store under direct calls.
StoreNext ==
    \/ \E e \in StorePrompts : StoreCreatePrompt(e)
    \/ \E e \in StoreCollections : StoreCreateCollection(e)
    \/ \E id \in 1..MaxQueryPrompts : StoreGetPrompt(id)
    \/ \E id \in 1..MaxQueryPrompts : StoreDeletePrompt(id)

SpecStore == Init /\ [][StoreNext]_vars

\* Sequential requests that create, reassign and delete several prompts and
\* collections.
LifeNext ==
    \/ \E payload \in LifeCreatePayloads : QueryCreatePrompt(payload, 0)
    \/ \E id \in 1..MaxQueryPrompts, payload \in LifeUpdatePayloads : UpdatePrompt(id, payload)
    \/ \E id \in 1..MaxQueryPrompts, payload \in LifeUpdatePayloads : PatchPrompt(id, payload)
    \/ \E id \in 1..MaxQueryPrompts : DeletePrompt(id)
    \/ CreateCollectionWithin("N1", MaxLifeCollections)
    \/ \E cid \in LifeCollectionIds : DeleteCollection(cid)
    \/ \E id \in 1..MaxQueryPrompts, raw \in OrderTagInputs : AddTagToPrompt(id, raw)
    \/ \E id \in 1..MaxQueryPrompts, raw \in OrderTagInputs : RemoveTagFromPrompt(id, raw)

SpecLife == Init /\ [][LifeNext]_vars

\* Concurrent requests on the same prompt.
RaceNext ==
    \/ \E payload \in RaceCreatePayloads : ConcCreatePrompt(payload)
    \/ \E t \in Threads, id \in 1..MaxQueryPrompts : ConcDeletePrompt(t, id)
    \/ \E t \in Threads, id \in 1..MaxQueryPrompts :
          AcceptRace(t, "update_prompt", id, PairPutPayload, <<>>)
    \/ \E t \in Threads, id \in 1..MaxQueryPrompts,
             payload \in {PairPutPayload, RaceContentPayload} :
          AcceptRace(t, "patch_prompt", id, payload, <<>>)
    \/ \E t \in Threads, id \in 1..MaxQueryPrompts, raw \in OrderTagInputs :
          AcceptRace(t, "add_tag_to_prompt", id, NoPayload, raw)
    \/ \E t \in Threads, id \in 1..MaxQueryPrompts, raw \in OrderTagInputs :
          AcceptRace(t, "remove_tag_from_prompt", id, NoPayload, raw)
    \/ \E t \in Threads : ConcUpdateGet(t)
    \/ \E t \in Threads : ConcUpdateCheck(t)
    \/ \E t \in Threads : ConcUpdateStore(t)
    \/ \E t \in Threads : ConcAddTagGet(t)
    \/ \E t \in Threads : ConcAddTagAppend(t)
    \/ \E t \in Threads : ConcAddTagStore(t)
    \/ \E t \in Threads : ConcRemoveTagGet(t)
    \/ \E t \in Threads : ConcRemoveTagDrop(t)
    \/ \E t \in Threads : ConcRemoveTagStore(t)

SpecRace == Init /\ [][RaceNext]_vars

\* The content utilities applied to texts, next to the requests that store
\* a content.
TextNext ==
    \/ \E text \in ContentInputs : ValidateContent(text)
    \/ \E text \in TemplateInputs : ExtractFrom(text)
    \/ \E payload \in TextCreatePayloads : CreatePrompt(payload, 0)
    \/ \E id \in PromptIdInputs, payload \in TextUpdatePayloads : UpdatePrompt(id, payload)
    \/ \E id \in PromptIdInputs, payload \in TextUpdatePayloads : PatchPrompt(id, payload)
    \/ \E id \in PromptIdInputs : GetPrompt(id)

SpecText == Init /\ [][TextNext]_vars

(***************************************************************************)
(* Properties.                                                             *)
(***************************************************************************)
Succeeded(ops, statuses) == req.op \in ops /\ resp.status \in statuses

Updated == Succeeded({"update_prompt", "patch_prompt"}, {200})

Count(l, x) == Cardinality({i \in 1..Len(l) : l[i] = x})

NoDuplicates(l) == \A i, j \in 1..Len(l) : l[i] = l[j] => i = j

\* C1. Orphan cascade: after delete_collection(C) succeeds, every prompt that
\* referenced C is still stored (get_prompt finds it) with collection_id
\* None, and no stored prompt references C.
C1_OrphanCascade ==
    Succeeded({"delete_collection"}, {204}) =>
        /\ \A p \in DOMAIN prevPrompts :
              prevPrompts[p].collection_id = Some(req.cid) =>
                  /\ ~IsNone(StorageGet(prompts, p))
                  /\ prompts[p].collection_id = None
        /\ \A p \in DOMAIN prompts : prompts[p].collection_id # Some(req.cid)

C1_Witness ==
    /\ Succeeded({"delete_collection"}, {204})
    /\ \E p \in DOMAIN prevPrompts : prevPrompts[p].collection_id = Some(req.cid)

\* C2. Under every interleaving of requests, no stored prompt references a
\* collection that is absent from the store.
C2_NoDanglingReference ==
    \A p \in DOMAIN prompts :
        ~IsNone(prompts[p].collection_id) =>
            Get(prompts[p].collection_id) \in DOMAIN collections

\* C3. A successful PUT or PATCH keeps the prompt's id and created_at, and
\* its updated_at is not earlier than the previous updated_at.
C3_UpdatePreservesIdentity ==
    Updated =>
        /\ req.pid \in DOMAIN prompts
        /\ prompts[req.pid].id = prevPrompts[req.pid].id
        /\ prompts[req.pid].created_at = prevPrompts[req.pid].created_at
        /\ prompts[req.pid].updated_at >= prevPrompts[req.pid].updated_at
        /\ resp.body = Some(prompts[req.pid])

C3_Witness ==
    /\ Updated
    /\ prompts[req.pid].updated_at > prevPrompts[req.pid].updated_at
    /\ prompts[req.pid].created_at < prompts[req.pid].updated_at

\* C4. Merge rule of PUT and PATCH: a field the payload supplies takes the
\* supplied value (tags lowercased), a field the payload omits keeps the
\* value it had; nothing else but updated_at changes.
C4_MergeRule ==
    Updated =>
        LET old == prevPrompts[req.pid]
            new == prompts[req.pid]
            given == req.payload
        IN  /\ new.title = IF IsNone(given.title) THEN old.title ELSE Get(given.title)
            /\ new.content = IF IsNone(given.content) THEN old.content ELSE Get(given.content)
            /\ new.description =
                  IF IsNone(given.description) THEN old.description ELSE given.description
            /\ new.collection_id =
                  IF IsNone(given.collection_id) THEN old.collection_id
                  ELSE given.collection_id
            /\ new.tags = IF IsNone(given.tags) THEN old.tags ELSE LowerAll(Get(given.tags))
            /\ new.id = old.id
            /\ new.created_at = old.created_at
            /\ \A p \in DOMAIN prevPrompts : p # req.pid => prompts[p] = prevPrompts[p]
            /\ DOMAIN prompts = DOMAIN prevPrompts
            /\ collections = prevCollections

\* A tags-only update of a prompt that has a description and a collection:
\* the tags change, the omitted fields are there to be kept.
C4_Witness ==
    /\ Updated
    /\ ~IsNone(req.payload.tags)
    /\ IsNone(req.payload.title)
    /\ IsNone(req.payload.description)
    /\ IsNone(req.payload.collection_id)
    /\ prompts[req.pid].tags # prevPrompts[req.pid].tags
    /\ prevPrompts[req.pid].title = "T2"
    /\ ~IsNone(prevPrompts[req.pid].description)
    /\ ~IsNone(prevPrompts[req.pid].collection_id)

\* C5. A successful PUT or PATCH sets updated_at to the current time, also
\* when the payload is empty: it is not earlier than the clock at the start
\* of the call.
C5_UpdateRefreshesStamp ==
    Updated =>
        /\ prompts[req.pid].updated_at = now
        /\ prompts[req.pid].updated_at >= prevNow

\* An empty payload on a prompt last touched before the clock advanced.
C5_Witness ==
    /\ Updated
    /\ req.payload = NoPayload
    /\ prevPrompts[req.pid].updated_at < prevNow

\* C6. After a successful tag add or tag remove the prompt's updated_at is
\* the time of that operation.
C6_TagOpsRefreshStamp ==
    Succeeded({"add_tag_to_prompt", "remove_tag_from_prompt"}, {200, 204}) =>
        prompts[req.pid].updated_at = now

\* C7. Every stored prompt has updated_at >= created_at.
C7_UpdatedNotBeforeCreated ==
    \A p \in DOMAIN prompts : prompts[p].updated_at >= prompts[p].created_at

\* A prompt whose two creation stamps differ, and one updated after creation.
C7_Witness ==
    \/ /\ Succeeded({"create_prompt"}, {201})
       /\ Get(resp.body).updated_at > Get(resp.body).created_at
       /\ prompts[Get(resp.body).id] = Get(resp.body)
    \/ /\ Updated
       /\ prompts[req.pid].updated_at > prompts[req.pid].created_at
       /\ prevPrompts[req.pid].updated_at = prevPrompts[req.pid].created_at

\* C8. Every stored tag is lowercase and has no leading or trailing
\* whitespace, and no prompt holds two tags that differ only in case or
\* surrounding whitespace.
C8_TagsNormalized ==
    \A p \in DOMAIN prompts :
        /\ \A tag \in Range(prompts[p].tags) : tag = Lower(tag) /\ tag = Strip(tag)
        /\ \A a, b \in Range(prompts[p].tags) : NormalizeTag(a) = NormalizeTag(b) => a = b

\* C9. No stored prompt's tag sequence holds the same tag twice.
C9_NoDuplicateTags ==
    \A p \in DOMAIN prompts : NoDuplicates(prompts[p].tags)

\* C10. Tag add is idempotent and order-preserving: a tag whose normalized
\* form is absent is appended after the existing tags, which keep their
\* order, and then occurs exactly once; a tag whose normalized form is
\* present leaves the sequence unchanged.
C10_AddTagIdempotent ==
    Succeeded({"add_tag_to_prompt"}, {200}) =>
        LET old == prevPrompts[req.pid].tags
            new == prompts[req.pid].tags
            tag == Lower(Strip(req.tag))
        IN  /\ tag \in Range(old) => new = old
            /\ tag \notin Range(old) =>
                  /\ Len(new) = Len(old) + 1
                  /\ SubSeq(new, 1, Len(old)) = old
                  /\ new[Len(new)] = tag
                  /\ Count(new, tag) = 1

\* The second add of a tag, in another spelling, after the first appended it
\* behind an existing tag.
C10_Witness ==
    /\ Succeeded({"add_tag_to_prompt"}, {200})
    /\ req.tag # Lower(Strip(req.tag))
    /\ Len(prevPrompts[req.pid].tags) >= 2
    /\ Lower(Strip(req.tag)) = prevPrompts[req.pid].tags[Len(prevPrompts[req.pid].tags)]
    /\ Count(prompts[req.pid].tags, Lower(Strip(req.tag))) = 1

\* C11. After a successful tag removal (204) the lowercased tag is not a
\* member of the prompt's stored tags.
C11_RemovedTagAbsent ==
    Succeeded({"remove_tag_from_prompt"}, {204}) =>
        Lower(req.tag) \notin Range(prompts[req.pid].tags)

\* The last request served is an update or a delete of prompt p: PUT, PATCH,
\* tag add, tag remove or DELETE on that id.
TouchesPrompt(p) ==
    /\ req.op \in {"update_prompt", "patch_prompt", "add_tag_to_prompt",
                   "remove_tag_from_prompt", "delete_prompt"}
    /\ req.pid = p

\* The last request served deleted the collection that prompt p referenced.
OrphansPrompt(p) ==
    /\ Succeeded({"delete_collection"}, {204})
    /\ prevPrompts[p].collection_id = Some(req.cid)

\* A create is followed by a get of the same entity: the response of create
\* is what the store holds, and a get answers with what the store holds.
CreateThenGet ==
    /\ Succeeded({"create_prompt"}, {201}) =>
          StorageGet(prompts, Get(resp.body).id) = resp.body
    /\ Succeeded({"create_collection"}, {201}) =>
          StorageGet(collections, Get(resp.body).id) = resp.body
    /\ Succeeded({"get_prompt"}, {200}) => resp.body = StorageGet(prompts, req.pid)
    /\ Succeeded({"get_collection"}, {200}) => resp.body = StorageGet(collections, req.cid)

\* A stored collection stays as it is until a delete of its id.
CollectionsKept ==
    \A x \in DOMAIN prevCollections :
        ~(req.op = "delete_collection" /\ req.cid = x) =>
            StorageGet(collections, x) = Some(prevCollections[x])

\* C12 as stated. Round trip: right after create(e), get(e.id) returns the
\* entity create returned, and a stored entity (hence every later get of it)
\* stays equal to it across every request that is not an update or a delete
\* of that id.
C12_RoundTrip ==
    /\ CreateThenGet
    /\ CollectionsKept
    /\ \A p \in DOMAIN prevPrompts :
          ~TouchesPrompt(p) => StorageGet(prompts, p) = Some(prevPrompts[p])

\* C12 amended. The same, where deleting the collection a prompt references
\* also changes what get returns for the prompt (its collection_id becomes
\* None).
C12_RoundTripUntilTouched ==
    /\ CreateThenGet
    /\ CollectionsKept
    /\ \A p \in DOMAIN prevPrompts :
          ~(TouchesPrompt(p) \/ OrphansPrompt(p)) =>
              StorageGet(prompts, p) = Some(prevPrompts[p])

\* A get of a prompt that was created in a collection, answered with the
\* stored prompt, which the get left in place.
C12_Witness ==
    /\ Succeeded({"get_prompt"}, {200})
    /\ ~IsNone(Get(resp.body).collection_id)
    /\ Get(resp.body).tags # <<>>
    /\ StorageGet(prompts, req.pid) = resp.body
    /\ prompts = prevPrompts

\* C13. Delete-then-get, for prompts and for collections: a delete succeeds
\* (204) iff the id was stored; after a success get(id) is absent; otherwise
\* the handler answers 404 and both mappings are as they were.
C13_DeleteThenGet ==
    /\ req.op = "delete_prompt" =>
          /\ resp.status = 204 <=> req.pid \in DOMAIN prevPrompts
          /\ resp.status = 204 => IsNone(StorageGet(prompts, req.pid))
          /\ resp.status # 204 =>
                resp.status = 404 /\ prompts = prevPrompts /\ collections = prevCollections
    /\ req.op = "delete_collection" =>
          /\ resp.status = 204 <=> req.cid \in DOMAIN prevCollections
          /\ resp.status = 204 => IsNone(StorageGet(collections, req.cid))
          /\ resp.status # 204 =>
                resp.status = 404 /\ prompts = prevPrompts /\ collections = prevCollections

\* A delete of a prompt id that is no longer stored, after an earlier delete
\* of it, while a collection is stored.
C13_Witness ==
    /\ req.op = "delete_prompt"
    /\ resp.status = 404
    /\ nextPid >= req.pid
    /\ collections # <<>>
    /\ collections = prevCollections

\* C14. Update of an absent id: PUT and PATCH answer 404 for a prompt id that
\* is not stored and leave the store as it was; storage.update_prompt(id, e)
\* for such an id returns absent, adds no entry and changes no entity.
C14_UpdateAbsent ==
    /\ (req.op \in {"update_prompt", "patch_prompt"} /\ req.pid \notin DOMAIN prevPrompts) =>
          /\ resp.status = 404
          /\ prompts = prevPrompts
          /\ collections = prevCollections
    /\ \A id \in PromptIdInputs \ DOMAIN prompts :
          \A x \in DOMAIN prevPrompts :
              /\ StorageUpdatePrompt(prompts, id, prevPrompts[x]) = prompts
              /\ IsNone(StorageUpdateResult(prompts, id, prevPrompts[x]))

\* A PATCH with a full payload on a prompt id that was deleted, while a
\* collection is stored.
C14_Witness ==
    /\ req.op = "patch_prompt"
    /\ resp.status = 404
    /\ ~IsNone(req.payload.title)
    /\ ~IsNone(req.payload.content)
    /\ nextPid >= req.pid
    /\ collections # <<>>

\* C15. Referential error: a create, PUT or PATCH whose payload names a
\* collection_id that is not the id of a stored collection is answered 400
\* and leaves the store as it was.  (A create with an invalid body is a 422
\* and an update of an unknown prompt a 404 before the collection is looked
\* at.)
C15_ReferentialError ==
    LET cid == req.payload.collection_id
        reachesCheck ==
            \/ req.op = "create_prompt" /\ ValidPromptCreate(req.payload)
            \/ req.op \in {"update_prompt", "patch_prompt"} /\ req.pid \in DOMAIN prevPrompts
    IN  (reachesCheck /\ ~IsNone(cid) /\ Get(cid) \notin DOMAIN prevCollections) =>
            /\ resp.status = 400
            /\ prompts = prevPrompts
            /\ collections = prevCollections

\* The entity a create, PUT or PATCH request asks for has a field out of
\* range: the title (given, or kept) is empty or longer than 200, the content
\* is empty, or the description is longer than 500.
OutOfRange(title, content, description) ==
    \/ Len(title) < 1 \/ Len(title) > 200
    \/ Len(content) < 1
    \/ ~IsNone(description) /\ Len(Get(description)) > 500

AsksInvalidPrompt ==
    LET given == req.payload
    IN  \/ /\ req.op = "create_prompt"
           /\ \/ IsNone(given.title) \/ IsNone(given.content)
              \/ OutOfRange(Get(given.title), Get(given.content), given.description)
        \/ /\ req.op \in {"update_prompt", "patch_prompt"}
           /\ req.pid \in DOMAIN prevPrompts
           /\ LET old == prevPrompts[req.pid]
              IN  OutOfRange(IF IsNone(given.title) THEN old.title ELSE Get(given.title),
                             IF IsNone(given.content) THEN old.content ELSE Get(given.content),
                             IF IsNone(given.description) THEN old.description
                             ELSE given.description)

AsksInvalidCollection ==
    /\ req.op = "create_collection"
    /\ \/ IsNone(req.payload.title)
       \/ Len(Get(req.payload.title)) < 1
       \/ Len(Get(req.payload.title)) > 100

\* C16. Validation never partially applies: every stored prompt has a title
\* of 1 to 200 characters, non-empty content and a description of at most 500
\* characters, every stored collection a name of 1 to 100 characters; a
\* request whose resulting entity would break a constraint fails and leaves
\* the store exactly as it was.
C16_ValidationNeverPartial ==
    /\ \A p \in DOMAIN prompts :
          ~OutOfRange(prompts[p].title, prompts[p].content, prompts[p].description)
    /\ \A x \in DOMAIN collections :
          Len(collections[x].name) >= 1 /\ Len(collections[x].name) <= 100
    /\ (AsksInvalidPrompt \/ AsksInvalidCollection) =>
          /\ resp.status \notin {200, 201}
          /\ prompts = prevPrompts
          /\ collections = prevCollections

\* A PATCH with a 201-character title on a stored prompt.
C16_Witness ==
    /\ req.op = "patch_prompt"
    /\ req.pid \in DOMAIN prevPrompts
    /\ ~IsNone(req.payload.title)
    /\ Len(Get(req.payload.title)) = 201
    /\ resp.status \notin {200, 201}
    /\ prompts = prevPrompts

\* The last request was a list request, answered.
Listed == Succeeded({"list_prompts"}, {200})

\* The prompts in the store, and those of the last list response.
Stored == {prompts[p] : p \in DOMAIN prompts}

Returned == Range(Get(resp.body).prompts)

\* What the same list request without its collection, search or tag
\* parameter returns.
WithoutCollection == Range(ListResult(prompts, None, req.search, req.tag))

WithoutSearch == Range(ListResult(prompts, req.collection_id, None, req.tag))

WithoutTag == Range(ListResult(prompts, req.collection_id, req.search, None))

\* C17 as stated. Collection filter: given a collection id X, the list holds
\* exactly the prompts (among those the other filters retain) whose
\* collection_id equals X, each once; an X matching no prompt gives an empty
\* list with total 0, not an error.
C17_CollectionFilter ==
    (req.op = "list_prompts" /\ ~IsNone(req.collection_id)) =>
        /\ resp.status = 200
        /\ Returned = {p \in WithoutCollection : p.collection_id = req.collection_id}
        /\ NoDuplicates(Get(resp.body).prompts)
        /\ {p \in Stored : p.collection_id = req.collection_id} = {} =>
              Get(resp.body).prompts = <<>> /\ Get(resp.body).total = 0

\* C17 amended. The same for a non-empty X; an empty string as collection id
\* applies no collection filter.
C17_CollectionFilterNonEmpty ==
    (req.op = "list_prompts" /\ ~IsNone(req.collection_id)) =>
        /\ resp.status = 200
        /\ NoDuplicates(Get(resp.body).prompts)
        /\ Get(req.collection_id) # "" =>
              /\ Returned = {p \in WithoutCollection : p.collection_id = req.collection_id}
              /\ {p \in Stored : p.collection_id = req.collection_id} = {} =>
                    Get(resp.body).prompts = <<>> /\ Get(resp.body).total = 0
        /\ Get(req.collection_id) = "" => Returned = WithoutCollection

\* A list by collection alone that returns one of the two stored prompts.
C17_Witness ==
    /\ Listed
    /\ req.collection_id = Some(CollId(1))
    /\ IsNone(req.search)
    /\ IsNone(req.tag)
    /\ Cardinality(Stored) = 2
    /\ Cardinality(Returned) = 1

\* C18 as stated. None as the collection filter of the list operation
\* retains only the prompts with no collection, and with no other filter
\* exactly those.
C18_NoneFiltersUnassigned ==
    (Listed /\ IsNone(req.collection_id)) =>
        /\ \A p \in Returned : IsNone(p.collection_id)
        /\ (IsNone(req.search) /\ IsNone(req.tag)) =>
              Returned = {p \in Stored : IsNone(p.collection_id)}

\* C18 amended. filter_prompts_by_collection given None retains exactly the
\* prompts with no collection; the list operation given None as collection
\* id applies no collection filter: it returns the prompts of every
\* collection that pass the search and the tag filter.
C18_NoneMeansNoFilter ==
    /\ Range(FilterPromptsByCollection(StorageGetAll(prompts), None)) =
          {p \in Stored : IsNone(p.collection_id)}
    /\ (Listed /\ IsNone(req.collection_id)) =>
          /\ Returned = Range(TagStage(SearchStage(StorageGetAll(prompts), req.search), req.tag))
          /\ (IsNone(req.search) /\ IsNone(req.tag)) => Returned = Stored

\* A list without any filter over a prompt in a collection and a prompt in
\* none.
C18_Witness ==
    /\ Listed
    /\ IsNone(req.collection_id)
    /\ IsNone(req.search)
    /\ IsNone(req.tag)
    /\ \E p \in Returned : ~IsNone(p.collection_id)
    /\ \E p \in Returned : IsNone(p.collection_id)

\* The query is, case-insensitively, a substring of the title or of the
\* description the prompt has.
MatchesSearch(p, q) ==
    \/ IsSubstring(Lower(q), Lower(p.title))
    \/ ~IsNone(p.description) /\ IsSubstring(Lower(q), Lower(Get(p.description)))

\* C19. Free-text search: with a non-empty query q the list holds exactly the
\* prompts (among those the other filters retain) where lowercase(q) is a
\* substring of the lowercased title or of the lowercased description, if
\* there is one; the content is not searched.
C19_SearchFilter ==
    (Listed /\ ~IsNone(req.search) /\ Get(req.search) # <<>>) =>
        Returned = {p \in WithoutSearch : MatchesSearch(p, Get(req.search))}

\* A search in capitals that returns a prompt through its description only
\* and leaves out a prompt that has the query in its content only.
C19_Witness ==
    /\ Listed
    /\ req.search = Some(<<"A">>)
    /\ IsNone(req.collection_id)
    /\ IsNone(req.tag)
    /\ \E p \in Returned : ~IsSubstring(<<"a">>, Lower(p.title))
    /\ \E p \in Stored \ Returned : IsSubstring(<<"a">>, Lower(p.content))

\* The prompt's lowercased tags hold the lowercased t as an element.
HasTag(p, t) == Lower(t) \in {Lower(x) : x \in Range(p.tags)}

\* C20 as stated. Tag filter: given a tag t the list holds exactly the
\* prompts (among those the other filters retain) whose lowercased tags hold
\* the lowercased t as an element; a tag that only contains t does not count.
C20_TagFilter ==
    (Listed /\ ~IsNone(req.tag)) =>
        Returned = {p \in WithoutTag : HasTag(p, Get(req.tag))}

\* C20 amended. The same for a non-empty t; an empty string as tag applies no
\* tag filter.
C20_TagFilterNonEmpty ==
    (Listed /\ ~IsNone(req.tag)) =>
        /\ Get(req.tag) # <<>> => Returned = {p \in WithoutTag : HasTag(p, Get(req.tag))}
        /\ Get(req.tag) = <<>> => Returned = WithoutTag

\* A tag query in capitals that returns a prompt carrying the tag and leaves
\* out a prompt with a tag that only contains it.
C20_Witness ==
    /\ Listed
    /\ req.tag = Some(<<"A">>)
    /\ IsNone(req.collection_id)
    /\ IsNone(req.search)
    /\ \E p \in Returned : <<"a">> \in Range(p.tags)
    /\ \E p \in Stored \ Returned :
          \E x \in Range(p.tags) : x # <<"a">> /\ IsSubstring(<<"a">>, x)

\* C21. Listing order: the list is ordered by created_at descending, each
\* result created no earlier than the next; the key is created_at, not
\* updated_at, so an older prompt, whatever its updated_at after a PUT, PATCH
\* or tag add, is never listed ahead of a prompt created later.
C21_ListingOrder ==
    Listed =>
        LET l == Get(resp.body).prompts
        IN  /\ \A i \in 1..(Len(l) - 1) : l[i].created_at >= l[i + 1].created_at
            /\ \A i, j \in 1..Len(l) : l[i].created_at < l[j].created_at => j < i

\* A listing of two prompts where the older one was retitled by an update at
\* or after the creation of the newer one, and is listed second.
C21_Witness ==
    /\ Listed
    /\ Len(Get(resp.body).prompts) = 2
    /\ LET first == Get(resp.body).prompts[1]
           second == Get(resp.body).prompts[2]
       IN  /\ first.created_at > second.created_at
           /\ second.title = "T2"
           /\ second.updated_at >= first.created_at
           /\ second.updated_at > second.created_at

\* The prompt passes the filters given: every parameter that is not None.
SatisfiesSupplied(p, collection_id, search, tag) ==
    /\ ~IsNone(collection_id) => p.collection_id = collection_id
    /\ ~IsNone(search) => MatchesSearch(p, Get(search))
    /\ ~IsNone(tag) => HasTag(p, Get(tag))

\* The prompt passes the filters given as non-empty strings.
SatisfiesNonEmpty(p, collection_id, search, tag) ==
    /\ TruthyStr(collection_id) => p.collection_id = collection_id
    /\ (~IsNone(search) /\ Get(search) # <<>>) => MatchesSearch(p, Get(search))
    /\ (~IsNone(tag) /\ Get(tag) # <<>>) => HasTag(p, Get(tag))

\* The list response holds each prompt once, and its total is their number.
ListedOnceWithTotal ==
    /\ resp.status = 200
    /\ NoDuplicates(Get(resp.body).prompts)
    /\ Get(resp.body).total = Len(Get(resp.body).prompts)
    /\ Get(resp.body).total = Cardinality(Returned)
    /\ (IsNone(req.collection_id) /\ IsNone(req.search) /\ IsNone(req.tag)) =>
          Returned = Stored

\* C22 as stated. List composition: the list is exactly the stored prompts
\* that satisfy every supplied filter (collection AND search AND tag), each
\* once; with no filter it is every stored prompt; the total is the number of
\* prompts returned.
C22_ListComposition ==
    req.op = "list_prompts" =>
        /\ ListedOnceWithTotal
        /\ Returned = {p \in Stored :
                          SatisfiesSupplied(p, req.collection_id, req.search, req.tag)}

\* C22 amended. The same, where a filter counts as supplied when it is given
\* as a non-empty string: an empty collection id, search or tag filters
\* nothing.
C22_ListCompositionNonEmpty ==
    req.op = "list_prompts" =>
        /\ ListedOnceWithTotal
        /\ Returned = {p \in Stored :
                          SatisfiesNonEmpty(p, req.collection_id, req.search, req.tag)}

\* A list by collection and search over two prompts of the collection, of
\* which one matches the search.
C22_Witness ==
    /\ Listed
    /\ TruthyStr(req.collection_id)
    /\ ~IsNone(req.search)
    /\ Get(req.search) # <<>>
    /\ Cardinality(Stored) = 2
    /\ Get(resp.body).total = 1
    /\ \E p \in Stored \ Returned : p.collection_id = req.collection_id

\* C23. PUT and PATCH are the same merge: from every reachable store, for
\* every stored prompt id and every PromptUpdate payload, PUT and PATCH give
\* the same status and leave the same stored prompt; the request served is
\* answered as its handler, run from the store it found, prescribes.
C23_PutPatchSameMerge ==
    /\ \A id \in DOMAIN prompts, payload \in UpdatePayloads :
          PutOutcome(prompts, collections, id, payload, now) =
              PatchOutcome(prompts, collections, id, payload, now)
    /\ req.op = "update_prompt" =>
          Outcome(resp.status, prompts) =
              PutOutcome(prevPrompts, prevCollections, req.pid, req.payload, prevNow)
    /\ req.op = "patch_prompt" =>
          Outcome(resp.status, prompts) =
              PatchOutcome(prevPrompts, prevCollections, req.pid, req.payload, prevNow)

\* A PUT without a tags field on a prompt that has tags, where only PUT
\* lowercases again, and a PATCH with tags from the same store.
C23_Witness ==
    /\ Succeeded({"update_prompt"}, {200})
    /\ IsNone(req.payload.tags)
    /\ Len(prevPrompts[req.pid].tags) >= 2
    /\ prompts[req.pid].tags = prevPrompts[req.pid].tags
    /\ \E payload \in UpdatePayloads :
          /\ ~IsNone(payload.tags)
          /\ PatchOutcome(prompts, collections, req.pid, payload, now).prompts # prompts

\* C24. Tag handling on update: after a successful PUT or PATCH whose
\* payload has a tags list, the stored tags are that list, element for
\* element, each lowercased (an empty list clears the tags); after one whose
\* payload has no tags field, the stored tags are, element for element, the
\* ones stored before.
C24_TagsOnUpdate ==
    Updated =>
        LET old == prevPrompts[req.pid].tags
            new == prompts[req.pid].tags
            given == req.payload.tags
        IN  /\ ~IsNone(given) =>
                  /\ Len(new) = Len(Get(given))
                  /\ \A i \in 1..Len(new) : new[i] = Lower(Get(given)[i])
                  /\ Get(given) = <<>> => new = <<>>
            /\ IsNone(given) =>
                  /\ Len(new) = Len(old)
                  /\ \A i \in 1..Len(new) : new[i] = old[i]

\* A PATCH without a tags field on a prompt whose tags were stored from the
\* list [" A", "a", "A"]: lowercased then, neither stripped nor deduplicated
\* now.
C24_Witness ==
    /\ Succeeded({"patch_prompt"}, {200})
    /\ IsNone(req.payload.tags)
    /\ ~IsNone(req.payload.title)
    /\ prevPrompts[req.pid].tags = << <<" ", "a">>, <<"a">>, <<"a">> >>
    /\ prompts[req.pid].tags = prevPrompts[req.pid].tags

\* The prompt a worker's own update makes of the prompt p at time t.
OwnResult(th, p, t) ==
    IF th.req.op = "update_prompt"
    THEN MergedPrompt(p, th.req.payload, PutTags(th.req.payload, p), t)
    ELSE IF th.req.op = "patch_prompt"
    THEN MergedPrompt(p, th.req.payload, PatchTags(th.req.payload, p), t)
    ELSE TaggedPrompt(p, NormalizeTag(th.req.tag))

\* The workers that have read their prompt and not yet answered.
Reading == {t \in Threads : threads[t].pc \in {"check", "write", "tag"}}

\* Worker t has changed the store already: a tag add past its append.
Appended(t) == threads[t].pc = "write" /\ threads[t].req.op = "add_tag_to_prompt"

\* Between a worker's read and its write the stored prompt is the one it
\* read, whole, or, once it has appended its tag, the whole result of its
\* own update.
OwnPromptWhole ==
    \A t \in Reading :
        StorageGet(prompts, threads[t].req.pid) =
            IF Appended(t)
            THEN Some(OwnResult(threads[t], Get(threads[t].existing), now))
            ELSE threads[t].existing

\* Worker t answers in this step, having reached its call of update_prompt.
Completes(t) == threads[t].pc = "write" /\ threads'[t].pc = "idle"

\* A step that completes an update stores the result of that update, made
\* of the prompt stored under its id, and leaves every other prompt alone.
CompletesOwnUpdate ==
    \A t \in Threads :
        Completes(t) =>
            LET id == threads[t].req.pid
                before == IF Appended(t) THEN Get(threads[t].existing) ELSE prompts[id]
            IN  /\ DOMAIN prompts' = DOMAIN prompts
                /\ prompts'[id] = OwnResult(threads[t], before, now)
                /\ \A other \in DOMAIN prompts \ {id} : prompts'[other] = prompts[other]

\* A get answered in this step returns, for a prompt some worker is
\* updating, the prompt that worker read or the result of its update.
GetSeesWhole ==
    (req' # req \/ resp' # resp) =>
        \A t \in Reading :
            threads[t].req.pid = req'.pid =>
                resp'.body \in {threads[t].existing,
                                Some(OwnResult(threads[t], Get(threads[t].existing), now))}

\* C25. Concurrent updates (PUT, PATCH, tag add) of prompts with different
\* ids do not interfere: under every interleaving each update, when it
\* completes, has stored exactly its own result and touched no other prompt,
\* and a concurrent get returns the whole prompt from before or from after
\* the update.
C25_NoInterference ==
    /\ []OwnPromptWhole
    /\ [][CompletesOwnUpdate /\ GetSeesWhole]_vars

\* A tag add past its append and a PUT about to write, in flight together on
\* different prompts, after a PATCH of the first, and a get that returned the
\* tagged prompt whole.
C25_Witness ==
    \E t, u \in Threads :
        /\ Appended(t)
        /\ threads[u].pc = "write"
        /\ threads[u].req.op = "update_prompt"
        /\ threads[u].req.pid # threads[t].req.pid
        /\ prompts[threads[t].req.pid].tags = << <<"b">>, <<"a">> >>
        /\ req.op = "get_prompt"
        /\ resp.body = Some(prompts[threads[t].req.pid])

\* The last request left both mappings as they were.
StoreUntouched == prompts = prevPrompts /\ collections = prevCollections

NothingToRemove ==
    \/ req.pid \notin DOMAIN prevPrompts
    \/ Lower(req.tag) \notin Range(prevPrompts[req.pid].tags)

\* C27. Removing a tag that is not on the prompt, or a tag from a prompt id
\* that is not stored, is answered 404 and changes nothing in the store; no
\* other removal is answered 404.
C27_RemoveAbsentTag ==
    req.op = "remove_tag_from_prompt" =>
        /\ NothingToRemove => resp.status = 404 /\ StoreUntouched
        /\ resp.status = 404 => NothingToRemove

\* The removal of "A" from a stored prompt whose only tag, " a", contains it
\* without being it.
C27_Witness ==
    /\ req.op = "remove_tag_from_prompt"
    /\ req.tag = <<"A">>
    /\ req.pid \in DOMAIN prevPrompts
    /\ prevPrompts[req.pid].tags = << <<" ", "a">> >>
    /\ resp.status = 404
    /\ prompts = prevPrompts

\* What GET /tags answers in the present state.
TagsNow == Sorted(AllTags(prompts))

\* Some stored prompt carries the tag.
Carried(tag) == \E p \in DOMAIN prompts : \E i \in 1..Len(prompts[p].tags) : prompts[p].tags[i] = tag

\* The answer of GET /tags is the set of the tags carried, each once, in
\* ascending order.
TagsListedExactly ==
    req.op = "get_all_tags" =>
        LET l == Get(resp.body).tags
        IN  /\ resp.status = 200
            /\ \A tag \in Range(l) : Carried(tag)
            /\ \A p \in DOMAIN prompts : \A tag \in Range(prompts[p].tags) : tag \in Range(l)
            /\ NoDuplicates(l)
            /\ \A i \in 1..(Len(l) - 1) : StrLess(l[i], l[i + 1])

\* A tag is gone from GET /tags after the deletion of the last prompt that
\* carried it.
TagGoneWithPrompt ==
    Succeeded({"delete_prompt"}, {204}) =>
        \A tag \in Range(prevPrompts[req.pid].tags) :
            (\A q \in DOMAIN prompts : tag \notin Range(prompts[q].tags)) =>
                tag \notin Range(TagsNow)

\* A tag is gone from GET /tags after its removal from the last prompt that
\* carried it.
TagGoneWhenRemoved ==
    (/\ Succeeded({"remove_tag_from_prompt"}, {204})
     /\ \A q \in DOMAIN prompts \ {req.pid} : Lower(req.tag) \notin Range(prompts[q].tags)) =>
        Lower(req.tag) \notin Range(TagsNow)

\* C28. GET /tags returns exactly the distinct tags that occur on a stored
\* prompt, each once, in ascending order; a tag is no longer returned once it
\* has been removed from, or deleted with, every prompt that carried it.
C28_AllTags == TagsListedExactly /\ TagGoneWithPrompt /\ TagGoneWhenRemoved

\* The operations that read: get_prompt, get_collection, list_prompts,
\* list_collections and get_all_tags.
ReadOps == {"get_prompt", "get_collection", "list_prompts", "list_collections", "get_all_tags"}

\* C29. get and list operations are pure: they leave both store mappings,
\* and so every field of every stored entity, as they were; a get of an id
\* that is not stored finds nothing (the store returns absent, the handler
\* answers 404 without a body).
C29_ReadsArePure ==
    /\ req.op \in ReadOps => StoreUntouched
    /\ (req.op = "get_prompt" /\ req.pid \notin DOMAIN prevPrompts) =>
          /\ IsNone(StorageGet(prevPrompts, req.pid))
          /\ resp = Response(404, None)
    /\ (req.op = "get_collection" /\ req.cid \notin DOMAIN prevCollections) =>
          /\ IsNone(StorageGet(prevCollections, req.cid))
          /\ resp = Response(404, None)

\* A list by search and tag that returns one of two stored prompts.
C29_Witness ==
    /\ Listed
    /\ ~IsNone(req.search)
    /\ ~IsNone(req.tag)
    /\ Get(req.tag) # <<>>
    /\ Cardinality(Stored) = 2
    /\ Cardinality(Returned) = 1
    /\ collections # <<>>
    /\ StoreUntouched

\* A create of an entity whose id was stored in db leaves as many entities
\* as before, get(id) returns the entity passed, the others are as they were
\* and the call returns the entity it was given, without an error.
Overwrote(before, after, id) ==
    /\ Cardinality(DOMAIN after) = Cardinality(DOMAIN before)
    /\ StorageGet(after, id) = Some(req.payload)
    /\ \A x \in DOMAIN before \ {id} : StorageGet(after, x) = Some(before[x])
    /\ resp = Response(0, Some(req.payload))

\* C30. Store.create on an id that is already stored overwrites: no error,
\* the number of stored entities of that kind is unchanged, get(id) returns
\* the newly passed entity, and create returns the entity it was given.
C30_CreateOverwrites ==
    /\ (req.op = "storage.create_prompt" /\ req.pid \in DOMAIN prevPrompts) =>
          Overwrote(prevPrompts, prompts, req.pid) /\ collections = prevCollections
    /\ (req.op = "storage.create_collection" /\ req.cid \in DOMAIN prevCollections) =>
          Overwrote(prevCollections, collections, req.cid) /\ prompts = prevPrompts

\* A create of a prompt under a stored id with another title, while a second
\* prompt is stored.
C30_Witness ==
    /\ req.op = "storage.create_prompt"
    /\ req.pid \in DOMAIN prevPrompts
    /\ prevPrompts[req.pid].title # req.payload.title
    /\ Cardinality(DOMAIN prevPrompts) = 2
    /\ prompts[req.pid] = req.payload

\* C31: ids are unique and never recycled.  Every stored prompt and every
\* stored collection is filed under its own id, an id the generator has
\* handed out.  The id of a newly created entity is the newest id: it is
\* above every id handed out before, so it differs from every stored one and
\* from every one a delete has freed, and the creation adds exactly that entry.
C31_IdsNeverRecycled ==
    /\ \A p \in DOMAIN prompts : prompts[p].id = p /\ p \in 1..nextPid
    /\ \A c \in DOMAIN collections :
          collections[c].id = c /\ c \in {CollId(n) : n \in 1..nextCid}
    /\ Succeeded({"create_prompt"}, {201}) =>
          LET id == Get(resp.body).id
          IN  /\ id = nextPid
              /\ \A q \in DOMAIN prevPrompts : q < id
              /\ DOMAIN prompts = DOMAIN prevPrompts \cup {id}
    /\ Succeeded({"create_collection"}, {201}) =>
          LET id == Get(resp.body).id
          IN  /\ id = CollId(nextCid)
              /\ id \notin {CollId(n) : n \in 1..(nextCid - 1)}
              /\ DOMAIN collections = DOMAIN prevCollections \cup {id}

\* A second prompt has been created after the first one was deleted, while
\* two collections are stored.
C31_Witness ==
    /\ Succeeded({"create_prompt"}, {201})
    /\ nextPid = 2
    /\ DOMAIN prevPrompts = {}
    /\ DOMAIN prompts = {2}
    /\ Cardinality(DOMAIN collections) = 2

\* The positions of a text that hold something other than whitespace, and
\* the number of characters from the first to the last of them.
Inked(text) == {i \in 1..Len(text) : ~IsSpace(text[i])}

TrimmedLen(text) ==
    IF Inked(text) = {} THEN 0
    ELSE LET first == CHOOSE i \in Inked(text) : \A j \in Inked(text) : i <= j
             last == CHOOSE i \in Inked(text) : \A j \in Inked(text) : j <= i
         IN  last - first + 1

\* C32: validate_prompt_content(text) is true exactly when the text without
\* its leading and trailing whitespace has at least ten characters: ten
\* characters pass, nine do not, whitespace alone does not.  The check is
\* advisory: a create, PUT or PATCH with a non-empty content is accepted and
\* the content stored, whether or not it passes the check.
C32_ContentCheckAdvisory ==
    /\ req.op = "validate_prompt_content" =>
          LET text == Get(req.payload.content)
              answer == Get(resp.body)
          IN  /\ answer = (TrimmedLen(text) >= 10)
              /\ text = Word(10, FALSE) => answer
              /\ text = Word(9, FALSE) => ~answer
              /\ Inked(text) = {} => ~answer
    /\ (req.op = "create_prompt" /\ Len(Get(req.payload.content)) >= 1) =>
          /\ resp.status = 201
          /\ prompts[Get(resp.body).id].content = Get(req.payload.content)
    /\ (/\ req.op \in {"update_prompt", "patch_prompt"}
        /\ req.pid \in DOMAIN prevPrompts
        /\ ~IsNone(req.payload.content)
        /\ Len(Get(req.payload.content)) >= 1) =>
          /\ resp.status = 200
          /\ prompts[req.pid].content = Get(req.payload.content)

\* A PUT has replaced a content that passes the check by one that fails it.
C32_Witness ==
    /\ Succeeded({"update_prompt"}, {200})
    /\ ValidatePromptContent(prevPrompts[req.pid].content)
    /\ ~ValidatePromptContent(Get(req.payload.content))
    /\ prompts[req.pid].content = Get(req.payload.content)

\* text[i..n+2] is a placeholder "{{identifier}}" whose identifier, made of
\* letters, digits and underscores only, is text[i+2..n].
IsPlaceholder(text, i, n) ==
    /\ i + 2 <= n /\ n + 2 <= Len(text)
    /\ text[i] = "{" /\ text[i + 1] = "{"
    /\ \A k \in (i + 2)..n : IsWordChar(text[k])
    /\ text[n + 1] = "}" /\ text[n + 2] = "}"

PlaceholderStarts(text) ==
    {i \in 1..Len(text) : \E n \in 1..Len(text) : IsPlaceholder(text, i, n)}

IdentifierAt(text, i) ==
    SubSeq(text, i + 2, CHOOSE n \in 1..Len(text) : IsPlaceholder(text, i, n))

\* The k-th smallest element of a set of positions.
NthPosition(positions, k) ==
    CHOOSE i \in positions : Cardinality({j \in positions : j < i}) = k - 1

\* C33: extract_variables(text) returns the identifiers of the placeholders
\* {{identifier}} of the text, one per placeholder, in the order of their
\* positions and with repeats kept.  A placeholder with a hyphen, with a
\* space inside or with single braces contributes nothing, and a placeholder
\* wrapped in one more pair of braces still yields its identifier.
C33_ExtractVariables ==
    req.op = "extract_variables" =>
        LET text == Get(req.payload.content)
            found == Get(resp.body)
            starts == PlaceholderStarts(text)
        IN  /\ Len(found) = Cardinality(starts)
            /\ \A k \in 1..Len(found) : found[k] = IdentifierAt(text, NthPosition(starts, k))
            /\ text \in {<<"{", "{", "a", "-", "b", "}", "}">>,
                         <<"{", "{", "a", " ", "b", "}", "}">>,
                         <<"{", "a", "}">>} => found = <<>>
            /\ text = <<"{", "{", "{", "b", "}", "}", "}">> => found = << <<"b">> >>
            /\ text = <<"{", "{", "a", "}", "}", "{", "{", "a", "}", "}">>
                  => found = << <<"a">>, <<"a">> >>

\* Two placeholders were found in a text, the second one inside an extra
\* pair of braces.
C33_Witness ==
    /\ req.op = "extract_variables"
    /\ Get(req.payload.content)
          = <<"{", "{", "a", "_", "1", "}", "}", "{", "{", "{", "b", "}", "}", "}">>
    /\ Get(resp.body) = << <<"a", "_", "1">>, <<"b">> >>

\* C34: after any sequence of requests served one at a time (create, PUT,
\* PATCH and delete of prompts, create and delete of collections, tag add
\* and remove), whatever their payloads, an empty-string collection_id
\* included, the collection_id of every stored prompt is None or the id of a
\* stored collection.
C34_SequentialIntegrity ==
    \A p \in DOMAIN prompts :
        \/ IsNone(prompts[p].collection_id)
        \/ \E c \in DOMAIN collections : prompts[p].collection_id = Some(c)

\* The worker t completes a PATCH of a prompt that is stored.
CompletesPatch(t) ==
    /\ Completes(t)
    /\ threads[t].req.op = "patch_prompt"
    /\ threads[t].req.pid \in DOMAIN prompts

\* C35: no lost update.  The read-merge-write of a PATCH is atomic with
\* respect to the other requests: the write of a PATCH that supplies no
\* title leaves the stored title as it is at that moment, and the write of
\* a PATCH that supplies no content leaves the stored content, so that
\* after a title-only and a content-only PATCH of one prompt, in whatever way
\* they interleave, the stored prompt carries both new values.
C35_NoLostUpdate ==
    [][\A t \in Threads :
          CompletesPatch(t) =>
              LET id == threads[t].req.pid
                  payload == threads[t].req.payload
              IN  /\ IsNone(payload.title) => prompts'[id].title = prompts[id].title
                  /\ IsNone(payload.content) => prompts'[id].content = prompts[id].content]_vars

\* C36: no resurrection.  A prompt that has been deleted stays absent: no
\* step of a PUT, PATCH, tag add or tag removal that read the prompt before
\* the delete puts it back under its id, and ids are not handed out twice.
C36_NoResurrection ==
    [][\A id \in 1..nextPid : id \notin DOMAIN prompts => id \notin DOMAIN prompts']_vars

\* A tag request is about to write a prompt that it read, and whose tags it
\* edited, before the prompt was deleted; another prompt is stored.
C36_Witness ==
    \E t \in Threads :
        /\ threads[t].pc = "write"
        /\ threads[t].req.op \in TagOps
        /\ ~IsNone(threads[t].existing)
        /\ threads[t].req.pid \in 1..nextPid
        /\ threads[t].req.pid \notin DOMAIN prompts
        /\ prompts # <<>>

\* A prompt stored before and after the last request whose collection_id
\* was set and is None now.
LostCollection(p) ==
    /\ p \in DOMAIN prompts /\ p \in DOMAIN prevPrompts
    /\ ~IsNone(prevPrompts[p].collection_id)
    /\ IsNone(prompts[p].collection_id)

\* C37: a PUT or PATCH never clears an optional field.  A payload whose
\* collection_id, or description, is null leaves the stored value in place,
\* and a stored value that is not None is not None after the update.  Once a
\* prompt has a collection_id, the only request that returns it to None is
\* the deletion of that collection.
C37_NeverCleared ==
    /\ Updated =>
          LET old == prevPrompts[req.pid]
              new == prompts[req.pid]
          IN  /\ IsNone(req.payload.collection_id) => new.collection_id = old.collection_id
              /\ IsNone(req.payload.description) => new.description = old.description
              /\ ~IsNone(old.collection_id) => ~IsNone(new.collection_id)
              /\ ~IsNone(old.description) => ~IsNone(new.description)
    /\ \A p \in 1..nextPid :
          LostCollection(p) =>
              /\ Succeeded({"delete_collection"}, {204})
              /\ prevPrompts[p].collection_id = Some(req.cid)

\* A PUT whose payload has a null collection_id and a null description was
\* served for a prompt that has both, next to a second prompt in another
\* collection.
C37_Witness ==
    /\ Succeeded({"update_prompt"}, {200})
    /\ IsNone(req.payload.collection_id) /\ IsNone(req.payload.description)
    /\ prevPrompts[req.pid].collection_id = Some(CollId(1))
    /\ prevPrompts[req.pid].description = Some("D1")
    /\ prevPrompts[req.pid].title # prompts[req.pid].title
    /\ \E q \in DOMAIN prompts : prompts[q].collection_id = Some(CollId(2))

\* C38: the frame of deletion.  A successful delete of prompt P removes P
\* and nothing else: every other prompt and every collection is stored as
\* before.  A successful delete of collection C removes C and nothing else:
\* no prompt is removed, every other collection is stored as before, and a
\* prompt that did not reference C keeps its collection_id.
C38_DeletionFrame ==
    /\ Succeeded({"delete_prompt"}, {204}) =>
          /\ DOMAIN prompts = DOMAIN prevPrompts \ {req.pid}
          /\ \A p \in DOMAIN prompts : prompts[p] = prevPrompts[p]
          /\ collections = prevCollections
    /\ Succeeded({"delete_collection"}, {204}) =>
          /\ DOMAIN collections = DOMAIN prevCollections \ {req.cid}
          /\ \A c \in DOMAIN collections : collections[c] = prevCollections[c]
          /\ DOMAIN prompts = DOMAIN prevPrompts
          /\ \A p \in DOMAIN prevPrompts :
                prevPrompts[p].collection_id # Some(req.cid) =>
                    prompts[p].collection_id = prevPrompts[p].collection_id

\* One of two collections was deleted while one prompt referenced it and
\* another prompt referenced the other collection.
C38_Witness ==
    /\ Succeeded({"delete_collection"}, {204})
    /\ Cardinality(DOMAIN prevCollections) = 2
    /\ \E p, q \in DOMAIN prevPrompts :
          /\ prevPrompts[p].collection_id = Some(req.cid)
          /\ ~IsNone(prevPrompts[q].collection_id)
          /\ Get(prevPrompts[q].collection_id) \in DOMAIN collections

====
